---------------------------- MODULE Spec2Model ----------------------------
(* Resilient LLM invocation layer of the event validator:                  *)
(*   utils/rate_limiter.py    TokenBucketRateLimiter                       *)
(*   utils/circuit_breaker.py CircuitBreaker                               *)
(*   utils/request_budget.py  RequestBudget                                *)
(*   validators/gemini_client.py, validators/groq_client.py                *)
(*   api/app.py               validate_batch                               *)
(*   utils/concurrency.py     the provider concurrency guards              *)
(*   orchestration/runner.py  process_submission and the validators        *)
(* Time is an integer number of milliseconds; products with the decimal    *)
(* multipliers of the source (0.9, 1.1, ...) are taken in tenths and       *)
(* truncated to whole milliseconds.                                        *)
EXTENDS Integers, Sequences, FiniteSets, TLC

VARIABLES
    now,            \* time.time(), in ms
    rl,             \* one TokenBucketRateLimiter
    rl_hist,        \* history: every timestamp the limiter admitted, and how
    rl_calls,       \* history: number of acquire() calls made so far
    cb,             \* the CircuitBreaker of each provider
    cb_hist,        \* history of the operations on the gemini breaker
    gemini_client,  \* app.py _gemini_client: the GeminiClient, once created
    rate_limit_callback,    \* gemini_client.py _rate_limit_callback is set
    rate_limit_detected,    \* app.py _rate_limit_detected (threading.Event)
    gemini_cache,   \* keys of _gemini_response_cache
    groq_cache,     \* keys of _groq_response_cache
    groq_rl,        \* the global Groq TokenBucketRateLimiter
    inv,            \* the _call_gemini invocation in progress, or the last one
    cl_hist,        \* history of the invocations
    batch,          \* the validate_batch request in progress, or the last one
    guard,          \* utils/concurrency.py: the semaphores and their callers
    sub,            \* the submission process_submission is working on
    lk,             \* the locks of the shared structures and their users
    dup             \* duplicate_validator.py: the hash tracker and its workers

rl_vars == <<rl, rl_hist, rl_calls>>
cb_vars == <<cb, cb_hist>>
app_vars == <<gemini_client, rate_limit_callback, rate_limit_detected>>
cl_vars == <<gemini_cache, groq_cache, groq_rl, inv, cl_hist>>

Min(a, b) == IF a < b THEN a ELSE b
Max(a, b) == IF a > b THEN a ELSE b

(***************************************************************************)
(* Bounds of the model                                                     *)
(***************************************************************************)
MaxAcquires == 4        \* acquire() calls explored on the limiter
MaxRPMConfig == 4       \* largest configured requests-per-minute explored
MaxConfiguredRPM == 30  \* largest requests_per_minute given to a constructor
MaxWindows == 2         \* rolling windows of wall-clock time explored
MaxRecorded == 11       \* calls recorded on a breaker within one window
MaxCBTicks == 9         \* clock ticks explored on the breaker
MinErrorsConfig == 7    \* GEMINI_CIRCUIT_BREAKER_MIN_ERRORS of the runs (default 20)
MaxInvocations == 2     \* _call_gemini invocations of a run about the cache
CacheRunFaults == 1     \* provider failures injected in such a run
MaxFaults == 6          \* provider failures injected in a run of one invocation
MaxClientTicks == 1     \* clock ticks between the invocations of a run
MaxClients == 1         \* GeminiClient objects created in a run
MaxBatches == 2         \* validate_batch requests of a run
MaxSubmissions == 5     \* submissions of one batch
MaxThreads == 3         \* threads calling the concurrency guards
MaxResets == 1          \* reset_semaphores() calls of a run
MaxDupSubmissions == 3  \* submissions of a batch checked for duplicate images
GeminiConcurrentConfig == 2     \* GEMINI_MAX_CONCURRENT of the runs (default 6)

(***************************************************************************)
(* utils/rate_limiter.py                                                   *)
(***************************************************************************)
WindowMs == 60000               \* the rolling window, 60.0 s
EpsilonMs == 100                \* the 0.1 s added when at the limit
SafetyCapPct == 95              \* min(safety_factor, 0.95)
DefaultSafetyPct == 90          \* safety_factor = 0.9
JitterMinTenths == 9            \* jitter_min = 0.9
JitterMaxTenths == 16           \* jitter_max = 1.6
JitterChoices == {JitterMinTenths, 10, JitterMaxTenths}
StartTime == 2 * WindowMs       \* the wall clock is far from 0

\* __init__: requests_per_minute = int(requests_per_minute * min(safety, 0.95))
EffectiveRPM(configured, safetyPct) ==
    (configured * Min(safetyPct, SafetyCapPct)) \div 100

\* __init__ with safety_factor in percent; `configured` is history, the
\* requests_per_minute argument the limiter was built with.
NewRateLimiter(configured, safetyPct, jitter) ==
    [ requests_per_minute |-> EffectiveRPM(configured, safetyPct),
      safety_factor       |-> safetyPct,
      jitter_enabled      |-> jitter,
      request_times       |-> << >>,
      last_request_time   |-> 0,
      configured          |-> configured ]

\* _global_rate_limiter = None
NoRateLimiter ==
    [ requests_per_minute |-> 0, safety_factor |-> 0, jitter_enabled |-> FALSE,
      request_times |-> << >>, last_request_time |-> 0, configured |-> 0 ]

\* acquire(): token_multiplier, in tenths. tokens = 0 stands for None.
TokenMultiplier(tokens) ==
    IF tokens > 2000 THEN 12 ELSE IF tokens > 1000 THEN 11 ELSE 10

TokenChoices == {0, 2500}

\* while self._request_times and self._request_times[0] < cutoff_time: popleft()
RECURSIVE Evict(_, _)
Evict(times, cutoff) ==
    IF times # << >> /\ Head(times) < cutoff
    THEN Evict(Tail(times), cutoff)
    ELSE times

\* deque(maxlen = requests_per_minute * 2).append
DequeAppend(times, t, maxlen) ==
    LET a == Append(times, t)
    IN  IF Len(a) > maxlen THEN Tail(a) ELSE a

\* The delay acquire() computes before jitter.
BaseDelay(r, times, t, tokens) ==
    LET tm == TokenMultiplier(tokens)
    IN  IF Len(times) >= r.requests_per_minute
        THEN (Max(0, (Head(times) + WindowMs) - t + EpsilonMs) * tm) \div 10
        ELSE LET min_interval == WindowMs \div r.requests_per_minute
                 time_since_last == t - r.last_request_time
             IN  IF time_since_last < min_interval
                 THEN ((min_interval - time_since_last) * tm) \div 10
                 ELSE 0

\* if self.jitter_enabled and delay > 0: delay = delay * uniform(min, max)
Jittered(r, delay, j) ==
    IF r.jitter_enabled /\ delay > 0 THEN (delay * j) \div 10 ELSE delay

\* acquire(wait, estimated_tokens) entered at time t with jitter draw j:
\* the delay returned, the time at which it returns, and the limiter after.
AcquireResult(r, t, wait, tokens, j) ==
    LET times   == Evict(r.request_times, t - WindowMs)
        delay   == Jittered(r, BaseDelay(r, times, t, tokens), j)
        request_time == IF wait /\ delay > 0 THEN t + delay ELSE t
    IN  [ delay |-> delay,
          at_limit |-> Len(times) >= r.requests_per_minute,
          request_time |-> request_time,
          limiter |-> [ r EXCEPT
              !.request_times = DequeAppend(times, request_time,
                                            r.requests_per_minute * 2),
              !.last_request_time = request_time ] ]

(***************************************************************************)
(* utils/circuit_breaker.py                                                *)
(***************************************************************************)
Providers == {"gemini", "groq"}
None == -1                      \* Python's None, for the Optional[float]

error_threshold_pct == 70       \* error_threshold = 0.70
window_duration == 30000        \* window_duration = 30.0 s
cooldown_duration == 10000      \* cooldown_duration = 10.0 s
half_open_max_attempts == 1
min_errors_to_open == MinErrorsConfig
MinSampleSize == 10             \* self.total_requests >= 10
CBTickMs == 5000                \* resolution of the clock in the breaker runs

\* __init__ at time t
NewCircuitBreaker(t) ==
    [ state |-> "closed", error_count |-> 0, success_count |-> 0,
      total_requests |-> 0, window_start |-> t, open_until |-> None,
      half_open_attempts |-> 0 ]

\* Mutant: the window reset forgets the requests but keeps the errors.
CheckWindowReset_KeepsErrors(b, t) ==
    IF t - b.window_start > window_duration
    THEN [b EXCEPT !.success_count = 0,
                   !.total_requests = 0, !.window_start = t]
    ELSE b

\* _check_window_reset() at time t
CheckWindowReset(b, t) ==
    IF t - b.window_start > window_duration
    THEN [b EXCEPT !.error_count = 0, !.success_count = 0,
                   !.total_requests = 0, !.window_start = t]
    ELSE b

\* Mutant: the threshold opens the breaker without a deadline.
CheckThreshold_NoDeadline(b, t, later) ==
    IF b.state = "open" THEN b
    ELSE IF b.total_requests = 0 THEN b
    ELSE IF ~(t - b.window_start > 0 \/ (t = b.window_start /\ later)) THEN b
    ELSE IF /\ b.error_count * 100 >= error_threshold_pct * Max(1, b.total_requests)
            /\ b.error_count >= min_errors_to_open
            /\ b.total_requests >= MinSampleSize
         THEN [b EXCEPT !.state = "open"]
         ELSE b

\* _check_threshold() at time t. `later` tells whether time.time() has moved
\* since window_start when both fall into the same millisecond.
CheckThreshold(b, t, later) ==
    IF b.state = "open" THEN b
    ELSE IF b.total_requests = 0 THEN b
    ELSE IF ~(t - b.window_start > 0 \/ (t = b.window_start /\ later)) THEN b
    ELSE IF /\ b.error_count * 100 >= error_threshold_pct * Max(1, b.total_requests)
            /\ b.error_count >= min_errors_to_open
            /\ b.total_requests >= MinSampleSize
         THEN [b EXCEPT !.state = "open", !.open_until = t + cooldown_duration]
         ELSE b

\* Mutant: the success that closes the breaker keeps the trial count.
RecordSuccess_KeepsAttempts(b, t) ==
    LET b1 == [b EXCEPT !.total_requests = @ + 1, !.success_count = @ + 1]
        b2 == IF b1.state = "half_open"
              THEN IF b1.half_open_attempts >= half_open_max_attempts
                   THEN [b1 EXCEPT !.state = "closed"]
                   ELSE [b1 EXCEPT !.half_open_attempts = @ + 1]
              ELSE IF b1.state = "open"
                   THEN [b1 EXCEPT !.error_count = Max(0, @ - 1)]
                   ELSE b1
    IN  CheckWindowReset(b2, t)

\* Mutant: a success while open forgets every error.
RecordSuccess_ClearsErrors(b, t) ==
    LET b1 == [b EXCEPT !.total_requests = @ + 1, !.success_count = @ + 1]
        b2 == IF b1.state = "half_open"
              THEN IF b1.half_open_attempts >= half_open_max_attempts
                   THEN [b1 EXCEPT !.state = "closed", !.half_open_attempts = 0]
                   ELSE [b1 EXCEPT !.half_open_attempts = @ + 1]
              ELSE IF b1.state = "open"
                   THEN [b1 EXCEPT !.error_count = 0]
                   ELSE b1
    IN  CheckWindowReset(b2, t)

\* record_success() at time t
RecordSuccess(b, t) ==
    LET b1 == [b EXCEPT !.total_requests = @ + 1, !.success_count = @ + 1]
        b2 == IF b1.state = "half_open"
              THEN IF b1.half_open_attempts >= half_open_max_attempts
                   THEN [b1 EXCEPT !.state = "closed", !.half_open_attempts = 0]
                   ELSE [b1 EXCEPT !.half_open_attempts = @ + 1]
              ELSE IF b1.state = "open"
                   THEN [b1 EXCEPT !.error_count = Max(0, @ - 1)]
                   ELSE b1
    IN  CheckWindowReset(b2, t)

\* Mutant: an error recorded while open pushes the deadline out.
RecordError_ExtendsCooldown(b, is_rate_limit, t, later) ==
    LET b1 == [b EXCEPT !.total_requests = @ + 1,
                        !.error_count = IF is_rate_limit THEN @ + 1 ELSE @]
        b2 == IF b1.state \in {"half_open", "open"}
              THEN [b1 EXCEPT !.state = "open",
                              !.open_until = t + cooldown_duration,
                              !.half_open_attempts = 0]
              ELSE b1
    IN  CheckWindowReset(CheckThreshold(b2, t, later), t)

\* Mutant: a half-open error re-opens without a new deadline.
RecordError_KeepsDeadline(b, is_rate_limit, t, later) ==
    LET b1 == [b EXCEPT !.total_requests = @ + 1,
                        !.error_count = IF is_rate_limit THEN @ + 1 ELSE @]
        b2 == IF b1.state = "half_open"
              THEN [b1 EXCEPT !.state = "open", !.half_open_attempts = 0]
              ELSE b1
    IN  CheckWindowReset(CheckThreshold(b2, t, later), t)

\* record_error(is_rate_limit) at time t
RecordError(b, is_rate_limit, t, later) ==
    LET b1 == [b EXCEPT !.total_requests = @ + 1,
                        !.error_count = IF is_rate_limit THEN @ + 1 ELSE @]
        b2 == IF b1.state = "half_open"
              THEN [b1 EXCEPT !.state = "open",
                              !.open_until = t + cooldown_duration,
                              !.half_open_attempts = 0]
              ELSE b1
    IN  CheckWindowReset(CheckThreshold(b2, t, later), t)

\* Mutant: the breaker admits every call.
CanProceed_AlwaysAdmits(b, t) == [ok |-> TRUE, breaker |-> b]

\* Mutant: an open breaker goes half-open whatever its deadline.
CanProceed_IgnoresDeadline(b, t) ==
    IF b.state = "open"
    THEN [ok |-> TRUE,
          breaker |-> [b EXCEPT !.state = "half_open", !.half_open_attempts = 0]]
    ELSE [ok |-> TRUE, breaker |-> b]

\* can_proceed() at time t: the value returned and the breaker after.
CanProceed(b, t) ==
    IF b.state = "open"
    THEN IF b.open_until # None /\ b.open_until # 0 /\ t >= b.open_until
         THEN [ok |-> TRUE,
               breaker |-> [b EXCEPT !.state = "half_open", !.half_open_attempts = 0]]
         ELSE [ok |-> FALSE, breaker |-> b]
    ELSE [ok |-> TRUE, breaker |-> b]

\* reset() at time t
ResetBreaker(b, t) == NewCircuitBreaker(t)

\* History of the breaker under test:
\*   op                   the last operation
\*   ok, at               what the last can_proceed() returned, and when
\*   opened_at            when a record_error() last moved closed -> open,
\*   half_open_error_at   when a record_error() last found it half-open,
\*                        both forgotten once can_proceed() admits a call
\*                        again or reset() is called
\*   saw_...              their values when the last can_proceed() began
\*   half_open_successes  record_success() calls since open -> half-open,
\*                        None after a record_error() or reset()
\*   is_rate_limit        the argument of the last operation when it was a
\*                        record_error(), FALSE otherwise
\*   half_open_admits     can_proceed() calls that returned true since open
\*                        -> half-open, that one included, counted up to
\*                        half_open_max_attempts + 1; None once the breaker
\*                        is no longer half-open
NewHist ==
    [ op |-> "init", ok |-> TRUE, at |-> None,
      opened_at |-> None, half_open_error_at |-> None,
      saw_opened_at |-> None, saw_half_open_error_at |-> None,
      half_open_successes |-> None, is_rate_limit |-> FALSE,
      half_open_admits |-> None ]

HistAfter(h, op, b, b2, t) ==
    [ h EXCEPT
        !.op = op,
        !.ok = TRUE, !.at = None, !.is_rate_limit = FALSE,
        !.half_open_admits =
            IF b2.state # "half_open" THEN None
            ELSE IF op # "can_proceed" THEN @
            ELSE IF b.state = "open" THEN 1
            ELSE Min(@ + 1, half_open_max_attempts + 1),
        !.saw_opened_at = None, !.saw_half_open_error_at = None,
        !.opened_at =
            IF op = "reset" THEN None
            ELSE IF op = "record_error" /\ b.state = "closed" /\ b2.state = "open"
                 THEN t ELSE @,
        !.half_open_error_at =
            IF op = "reset" THEN None
            ELSE IF op = "record_error" /\ b.state = "half_open" THEN t ELSE @,
        !.half_open_successes =
            IF op \in {"reset", "record_error"} THEN None
            ELSE IF op = "can_proceed" /\ b.state = "open" /\ b2.state = "half_open"
                 THEN 0
            ELSE IF op = "record_success" /\ @ # None
                 THEN Min(@ + 1, half_open_max_attempts + 1)
            ELSE @ ]

\* The history after a can_proceed() that returned ok.
HistAfterCanProceed(h, b, b2, ok, t) ==
    LET h1 == HistAfter(h, "can_proceed", b, b2, t)
    IN  [ h1 EXCEPT
            !.ok = ok, !.at = t,
            !.saw_opened_at = h.opened_at,
            !.saw_half_open_error_at = h.half_open_error_at,
            !.opened_at = IF ok THEN None ELSE @,
            !.half_open_error_at = IF ok THEN None ELSE @ ]

(***************************************************************************)
(* validators/gemini_client.py, validators/groq_client.py                  *)
(***************************************************************************)
max_retries == 3                \* _call_gemini / _call_groq max_retries
GeminiBaseDelayMs == 2000       \* base_delay = 2.0
MaxBackoffMs == 60000           \* min(..., 60)
MinHintDelayMs == 5000          \* max(retry_delay, 5.0)
GroqHintBufferMs == 500         \* delay + 0.5 in GroqClient._extract_retry_delay
ErrorPauseMs == 1000            \* time.sleep(1) after a non-throttling error
Sha256HexLen == 64              \* hashlib.sha256().hexdigest()
CacheHashPrefix == 16           \* image_hash[:16]
max_calls == 5                  \* RequestBudget.max_calls

NoHash == << >>
Images == {"none", "imgA", "imgB"}
HintChoices == {None, 2000}     \* the retry delay stated in the error text
\* What the provider call of one attempt does: it returns text, returns
\* nothing usable, raises an exception whose text names a rate limit, or
\* raises any other exception (provider error or transport failure).
Outcomes == {"text", "empty", "throttle", "error"}

\* `except Exception as e:` around the provider call (gemini_client.py line
\* 272, groq_client.py line 159): every exception an attempt raises is
\* handled inside the loop.
HandlerCatches_OnlyRateLimit(outcome) == outcome = "throttle"
HandlerCatches(outcome) ==
    outcome \in {"throttle", "error"}

\* model = model or self.vision_model / self.text_model (both gemini-2.5-pro)
EffectiveModel(model_arg) ==
    IF model_arg = "default" THEN "gemini-2.5-pro" ELSE model_arg

\* The hex digits of the two attachments' contents.
HexDigit(image, i) == IF image = "imgA" THEN (i * 7) % 16 ELSE (i * 11 + 3) % 16

\* compute_sha256(image_path): 64 hex digits, or no hash without an image.
ImageHash(image) ==
    IF image = "none" THEN NoHash
    ELSE [i \in 1..Sha256HexLen |-> HexDigit(image, i)]

\* image_hash[:16]
HashPrefix(h) == SubSeq(h, 1, Min(Len(h), CacheHashPrefix))

\* _get_cache_key: the text that is hashed; sha256 of it is taken to be
\* free of collisions.
GeminiCacheKey(prompt, model, image_hash) ==
    IF image_hash # NoHash THEN <<model, prompt, "img", image_hash>>
    ELSE <<model, prompt>>

\* The key _call_gemini looks up before calling (lines 167-177); NoHash
\* stands for "no lookup".
GeminiLookupKey(prompt, model, image, use_cache) ==
    IF use_cache /\ ImageHash(image) # NoHash
    THEN GeminiCacheKey(prompt, model, HashPrefix(ImageHash(image)))
    ELSE IF use_cache /\ image = "none"
         THEN GeminiCacheKey(prompt, model, NoHash)
         ELSE NoHash

\* The key _call_gemini stores the response under (lines 264-266).
GeminiStoreKey(prompt, model, image) ==
    GeminiCacheKey(prompt, model, ImageHash(image))

\* GroqClient._get_cache_key
GroqCacheKey(prompt, model) == <<model, prompt>>

\* Mutant: the backoff does not grow with the attempt.
GeminiRetryDelay_NoDoubling(hint, attempt) ==
    IF hint # None /\ hint # 0 THEN Max(hint, MinHintDelayMs)
    ELSE Min(GeminiBaseDelayMs, MaxBackoffMs)

\* The sleep before a retry after a throttling error (gemini lines 304-322).
GeminiRetryDelay(hint, attempt) ==
    IF hint # None /\ hint # 0 THEN Max(hint, MinHintDelayMs)
    ELSE Min(GeminiBaseDelayMs * (2 ^ attempt), MaxBackoffMs)

\* The sleep before a retry after a throttling error (groq lines 176-195).
GroqRetryDelay(hint, attempt) ==
    IF hint # None THEN hint + GroqHintBufferMs
    ELSE Min(2000 * (2 ^ attempt), MaxBackoffMs)

\* rate_limiter.estimate_tokens(prompt, has_image): "p2" is the long prompt.
EstimateTokens(prompt, has_image) ==
    (IF prompt = "p1" THEN 200 ELSE 1200) + (IF has_image THEN 1000 ELSE 0)

\* GeminiClient.__init__: self.client is set or None, self.groq_client is
\* None ("absent"), a GroqClient without client ("no_client") or usable.
NoClient == [created |-> FALSE, gemini_ok |-> FALSE, groq |-> "absent"]
NewGeminiClient(gemini_ok, groq) ==
    [created |-> TRUE, gemini_ok |-> gemini_ok, groq |-> groq]

\* Whether _call_gemini turns to _call_groq when the breaker refuses
\* (lines 184, 207, 291): self.groq_client and not image_path.
FallbackOnOpenBreaker(c, image) ==
    c.groq # "absent" /\ image = "none"

\* Whether _call_gemini turns to _call_groq after the last attempt raised
\* (line 335): self.groq_client and self.groq_client.client.
FallbackOnExhaustion_Never(c, image) == FALSE
FallbackOnExhaustion(c, image) ==
    c.groq = "ok"

\* GroqClient.text_model / image_model
GroqTextModel == "llama-3.1-8b-instant"

\* The Groq model the last-resort fallback asks for (lines 341, 350).
ExhaustionGroqModel(image) ==
    IF image # "none" THEN "meta-llama/llama-4-scout-17b-16e-instruct"
    ELSE GroqTextModel

\* get_gemini_circuit_breaker() / get_groq_circuit_breaker(): the breaker
\* is created on first use.
AbsentBreaker == [NewCircuitBreaker(0) EXCEPT !.state = "absent"]
GetBreaker(b, t) == IF b.state = "absent" THEN NewCircuitBreaker(t) ELSE b

\* A breaker on which `errors` throttling errors and `successes` successes
\* have been recorded at time t.
RECURSIVE Recorded(_, _, _, _)
Recorded(b, errors, successes, t) ==
    IF errors > 0
    THEN Recorded(RecordError(b, TRUE, t, TRUE), errors - 1, successes, t)
    ELSE IF successes > 0
         THEN Recorded(RecordSuccess(b, t), errors, successes - 1, t)
         ELSE b

\* The Gemini breaker of a process whose next throttling error opens it.
WarmBreaker ==
    Recorded(NewCircuitBreaker(StartTime), min_errors_to_open - 1,
             MinSampleSize - min_errors_to_open, StartTime)

\* `if cache_key in cache: return cache[cache_key]`: the cached text, or
\* "miss". Only non-empty responses are ever stored.
CacheGet_NeverHits(cache, key) == "miss"
CacheGet(cache, key) ==
    IF key # NoHash /\ key \in cache THEN "text" ELSE "miss"

\* The breaker is Open and its cooldown has not elapsed at time t.
OpenNow(b, t) == b.state = "open" /\ t < b.open_until

\* One _call_gemini invocation: the arguments, the position in the code,
\* the value returned, and what it has done so far (open_miss: it started
\* with the Gemini breaker open and no cached response; gemini_acquires,
\* groq_acquires: its acquisitions on the provider's rate limiter).
IdleInvocation ==
    [ pc |-> "idle", prompt |-> "p1", model |-> "gemini-2.5-pro",
      image |-> "none", use_cache |-> TRUE,
      attempt |-> 0, groq_model |-> GroqTextModel, groq_attempt |-> 0,
      result |-> "pending",
      gemini_net |-> 0, gemini_errors |-> 0, groq_net |-> 0, groq_calls |-> 0,
      primary |-> FALSE, groq_avail |-> "absent",
      answered_before |-> FALSE, throttled |-> FALSE,
      open_miss |-> FALSE, gemini_acquires |-> 0, groq_acquires |-> 0,
      opened_after |-> 0, backoff |-> None, backoff_attempt |-> 0 ]

Finish(i, result) == [i EXCEPT !.pc = "done", !.result = result]
ToGroq(i, model) == [i EXCEPT !.pc = "groq_start", !.groq_model = model]

\* The end of the except block (lines 331-358): the last attempt turns to
\* Groq or gives up, an earlier one goes round the loop.
AfterFailure(i, c) ==
    IF i.attempt = max_retries - 1
    THEN IF FallbackOnExhaustion(c, i.image)
         THEN ToGroq(i, ExhaustionGroqModel(i.image))
         ELSE Finish(i, "none")
    ELSE [i EXCEPT !.attempt = @ + 1]

\* One pass of the retry loop of _call_gemini from the network call on
\* (lines 214-358), at time t with breaker b and limiter r; `hint` is the
\* retry delay the error text states, if any. `signal` tells
\* whether line 298 was reached, `store` whether the response was cached.
GeminiCall(i, c, b, r, t, outcome, hint, later) ==
    LET called == [i EXCEPT !.gemini_net = @ + 1]
        failed == [called EXCEPT !.gemini_errors = @ + 1]
        same == [ inv |-> called, breaker |-> b, limiter |-> r, time |-> t,
                  signal |-> FALSE, store |-> FALSE ]
    IN  CASE outcome \in {"throttle", "error"} /\ ~HandlerCatches(outcome) ->
               [same EXCEPT !.inv = Finish(failed, "raised")]
          [] outcome = "text" ->
               [same EXCEPT !.inv = Finish(called, "text"),
                            !.breaker = RecordSuccess(b, t),
                            !.store = i.use_cache]
          [] outcome = "empty" ->
               [same EXCEPT !.inv = Finish(called, "none")]
          [] outcome = "throttle" ->
               LET recorded == RecordError(b, TRUE, t, later)
                   cp == CanProceed(recorded, t)
                   thr == [failed EXCEPT
                             !.throttled = TRUE,
                             !.backoff = IF cp.ok /\ (hint = None \/ hint = 0)
                                         THEN GeminiRetryDelay(hint, i.attempt)
                                         ELSE @,
                             !.backoff_attempt = IF cp.ok /\ (hint = None \/ hint = 0)
                                                 THEN i.attempt ELSE @,
                             !.opened_after = IF recorded.state = "open" /\ @ = 0
                                              THEN failed.gemini_net ELSE @]
                   acq == AcquireResult(r, t + GeminiRetryDelay(hint, i.attempt),
                              TRUE, EstimateTokens(i.prompt, i.image # "none"), 10)
               IN  IF ~cp.ok
                   THEN [same EXCEPT
                           !.inv = IF FallbackOnOpenBreaker(c, i.image)
                                   THEN ToGroq(thr, GroqTextModel)
                                   ELSE Finish(thr, "none"),
                           !.breaker = cp.breaker]
                   ELSE [same EXCEPT
                           !.inv = AfterFailure(
                                     [thr EXCEPT !.gemini_acquires = @ + 1], c),
                           !.breaker = cp.breaker,
                           !.limiter = acq.limiter,
                           !.time = acq.request_time,
                           !.signal = TRUE]
          [] OTHER ->
               [same EXCEPT !.inv = AfterFailure(failed, c),
                            !.time = t + ErrorPauseMs]

\* One pass of the retry loop of _call_groq from the network call on
\* (groq_client.py lines 112-207).
GroqCall(i, b, r, t, outcome, hint, later) ==
    LET called == [i EXCEPT !.groq_net = @ + 1]
        last == i.groq_attempt = max_retries - 1
        again == [called EXCEPT !.groq_attempt = @ + 1]
        same == [ inv |-> called, breaker |-> b, limiter |-> r, time |-> t ]
    IN  CASE outcome \in {"throttle", "error"} /\ ~HandlerCatches(outcome) ->
               [same EXCEPT !.inv = Finish(called, "raised")]
          [] outcome = "text" ->
               [same EXCEPT !.inv = Finish(called, "text"),
                            !.breaker = RecordSuccess(b, t)]
          [] outcome = "empty" ->
               [same EXCEPT !.inv = Finish(called, "none")]
          [] outcome = "throttle" ->
               LET cp == CanProceed(RecordError(b, TRUE, t, later), t)
                   acq == AcquireResult(r, t + GroqRetryDelay(hint, i.groq_attempt),
                              TRUE, EstimateTokens(i.prompt, FALSE), 10)
               IN  IF ~cp.ok
                   THEN [same EXCEPT !.inv = Finish(called, "none"),
                                     !.breaker = cp.breaker]
                   ELSE IF last
                   THEN [same EXCEPT
                           !.inv = Finish([called EXCEPT !.groq_acquires = @ + 1],
                                          "none"),
                           !.breaker = RecordError(cp.breaker, TRUE,
                                                   acq.request_time, TRUE),
                           !.limiter = acq.limiter,
                           !.time = acq.request_time]
                   ELSE [same EXCEPT
                           !.inv = [again EXCEPT !.groq_acquires = @ + 1],
                           !.breaker = cp.breaker,
                           !.limiter = acq.limiter,
                           !.time = acq.request_time]
          [] OTHER ->
               IF last
               THEN [same EXCEPT !.inv = Finish(called, "none"),
                                 !.breaker = RecordError(b, FALSE, t, later)]
               ELSE [same EXCEPT !.inv = again, !.time = t + ErrorPauseMs]

\* History of a run of the client: the invocations and provider failures
\* it may still see, its clock ticks, and the requests that a primary
\* network call has answered with caching on.
NewClHist(invocations, faults) ==
    [ invocations_left |-> invocations, faults_left |-> faults,
      ticks |-> 0, clients |-> 0, answered |-> {} ]

(***************************************************************************)
(* api/app.py                                                              *)
(***************************************************************************)
DEFAULT_MAX_WORKERS == 4

\* _gemini_client after validate_batch lines 265-273 (override: the request
\* carries a gemini_api_key) or after get_gemini_client() alone, as
\* health_check calls it: the client is replaced on override and created
\* when there is none.
ClientAfterGet(c, override, gemini_ok, groq) ==
    IF override \/ ~c.created THEN NewGeminiClient(gemini_ok, groq) ELSE c

\* _rate_limit_callback after the same code: get_gemini_client registers
\* the callback only when it finds no client (lines 138-152).
CallbackAfterGet(cbk, c, override) ==
    cbk \/ (~override /\ ~c.created)

\* A validate_batch request: its number in the run, the mode read at its
\* start, its submissions' progress, the rows collected by index
\* (indexed_results) and the list built from them (results); and, as
\* history, how process_submission ended for each submission and the order
\* in which the submissions completed.
NoBatch ==
    [ index |-> 0, phase |-> "idle", use_sequential |-> FALSE, n |-> 0,
      status |-> << >>, indexed |-> << >>, results |-> << >>,
      outcome |-> << >>, order |-> << >> ]

NewBatch(index, n, flag) ==
    [ index |-> index,
      phase |-> IF flag THEN "sequential" ELSE "parallel",
      use_sequential |-> flag, n |-> n,
      status |-> [i \in 1..n |-> "pending"],
      indexed |-> [i \in 1..n |-> "none"],
      results |-> << >>,
      outcome |-> [i \in 1..n |-> "none"],
      order |-> << >> ]

Pending(b) == {i \in 1..b.n : b.status[i] = "pending"}
Running(b) == {i \in 1..b.n : b.status[i] = "running"}

\* How process_submission ends: it returns the scored submission, raises,
\* or raises an exception whose text names a rate limit.
SubmissionOutcomes == {"ok", "error", "rate_limit_error"}

\* The row of a submission: the scored row, or on an exception the row
\* with Status "Error" and Overall Score 0 (lines 301-306, 338-344).
RowOf(outcome) == IF outcome = "ok" THEN "scored" ELSE "Error"

\* The batch after process_submission has ended for submission i (lines
\* 289-307 in the loop, 319-344 and 353-356 in the pool): the row is
\* appended to results by the loop, kept under its index by the pool.
Finished_AbortsOnError(b, i, outcome) ==
    IF outcome = "ok"
    THEN [b EXCEPT !.status[i] = "done", !.indexed[i] = RowOf(outcome),
                   !.results = IF b.phase = "sequential"
                               THEN Append(@, [submission |-> i, row |-> RowOf(outcome)])
                               ELSE @,
                   !.outcome[i] = outcome, !.order = Append(@, i)]
    ELSE [b EXCEPT !.status = [j \in 1..b.n |-> "done"],
                   !.outcome[i] = outcome, !.order = Append(@, i)]
Finished(b, i, outcome) ==
    [b EXCEPT !.status[i] = "done",
              !.indexed[i] = RowOf(outcome),
              !.results = IF b.phase = "sequential"
                          THEN Append(@, [submission |-> i, row |-> RowOf(outcome)])
                          ELSE @,
              !.outcome[i] = outcome,
              !.order = Append(@, i)]

\* results = [indexed_results[i] for i in range(len(submissions))] (line 374)
Reassemble_CompletionOrder(b) ==
    [k \in 1..b.n |-> [submission |-> b.order[k], row |-> b.indexed[b.order[k]]]]
Reassemble(b) ==
    [i \in 1..b.n |-> [submission |-> i, row |-> b.indexed[i]]]

\* max_workers = min(DEFAULT_MAX_WORKERS, len(submissions)); the sequential
\* loop has one submission in hand.
MaxRunning(b) ==
    IF b.phase = "sequential" THEN 1 ELSE Min(DEFAULT_MAX_WORKERS, b.n)

(***************************************************************************)
(* utils/concurrency.py                                                    *)
(***************************************************************************)
GEMINI_MAX_CONCURRENT == GeminiConcurrentConfig
GROQ_MAX_CONCURRENT == 1

MaxConcurrent(p) ==
    IF p = "gemini" THEN GEMINI_MAX_CONCURRENT ELSE GROQ_MAX_CONCURRENT

Threads == 1..MaxThreads

\* The module's state: the semaphore objects created so far (each with its
\* provider and its counter), which of them _gemini_semaphore and
\* _groq_semaphore refer to (0 for None), and each calling thread's place
\* in a guard with the semaphore object it holds a reference to.
IdleThread == [pc |-> "idle", provider |-> "gemini", sem |-> 0, acquired |-> FALSE]
NoGuard ==
    [ sems |-> << >>,
      current |-> [p \in Providers |-> 0],
      th |-> [t \in Threads |-> IdleThread],
      resets |-> 0 ]

\* _get_gemini_semaphore() / _get_groq_semaphore(): the semaphore is
\* created, with all its permits, if the module variable is None.
GetSemaphore(g, p) ==
    IF g.current[p] = 0
    THEN [g EXCEPT !.sems = Append(@, [provider |-> p, value |-> MaxConcurrent(p)]),
                   !.current[p] = Len(g.sems) + 1]
    ELSE g

\* The finally clause of the guards: if acquired: semaphore.release().
Released(g, t, how) ==
    IF g.th[t].acquired
    THEN [g EXCEPT !.sems[g.th[t].sem].value = @ + 1, !.th[t] = IdleThread]
    ELSE [g EXCEPT !.th[t] = IdleThread]

\* The threads inside the guarded block of provider p, and the threads
\* holding a permit of semaphore object k.
InsideGuard(g, p) ==
    {t \in Threads : g.th[t].pc = "inside" /\ g.th[t].provider = p}
Holders(g, k) ==
    {t \in Threads : g.th[t].acquired /\ g.th[t].sem = k}

(***************************************************************************)
(* config/rules.py, validators/*_validator.py, orchestration/runner.py     *)
(***************************************************************************)
\* The rules in force (year alignment and geotag are disabled), in the
\* order process_submission evaluates them.
THEME_RULES ==
    << [name |-> "Title/Objectives/Learning align to theme", points |-> 10],
       [name |-> "Level matches duration", points |-> 11],
       [name |-> "Participants reported > 15", points |-> 12] >>
PDF_RULES ==
    << [name |-> "PDF title matches metadata", points |-> 7],
       [name |-> "Expert details present", points |-> 7],
       [name |-> "Learning outcomes align", points |-> 3],
       [name |-> "Objectives match", points |-> 3],
       [name |-> "Participant info matches", points |-> 5] >>
IMAGE_RULES ==
    << [name |-> "Banner/Poster visible", points |-> 2],
       [name |-> "Event scene is real activity", points |-> 3],
       [name |-> "Event mode matches (online/offline)", points |-> 5],
       [name |-> "15+ participants visible", points |-> 4] >>
SIMILARITY_RULES ==
    << [name |-> "Duplicate photo detection (filesystem)", points |-> 15] >>
ACCEPTANCE_THRESHOLD == 60

\* The message of each failed criterion.
ThemeMessages ==
    << "Content does not semantically align with declared theme",
       "Duration does not match Level requirements",
       "Participants reported (needs > 20)" >>
PdfMessages ==
    << "PDF title does not match expected",
       "Expert details not found in PDF",
       "Learning outcomes in PDF do not align with expected outcomes",
       "Objectives in PDF do not match expected objectives",
       "PDF participant information does not match expected" >>
ImageMessages ==
    << "Banner or poster not visible in images",
       "Image does not depict a real event activity",
       "Event mode in image does not match specified mode",
       "20+ participants not visible in images" >>

\* ValidationResult(criterion, passed, points_awarded, message) as every
\* validator builds it from a rule and a verdict.
ValidationResult(rule, passed, message) ==
    [ criterion |-> rule.name, passed |-> passed,
      points_awarded |-> IF passed THEN rule.points ELSE 0,
      message |-> IF passed THEN "" ELSE message ]

\* What the providers say to a semantic check: "YES", "NO", or no answer
\* at all (every call of the check returned None).
ProviderAnswers == {"YES", "NO", "none"}

\* GeminiClient.check_theme_alignment: "YES" in response.upper(), and
\* False when the primary call, the retry and Groq all failed.
CheckThemeAlignment(answer) == answer = "YES"

\* The calls of _call_gemini one check_theme_alignment makes and the answer
\* it goes by: the primary call (use_cache=True) and, when that returned
\* nothing, the retry of try_gemini_retry (use_cache=False) run next to
\* Groq; `fallback` is what the first of the two to answer said.
ThemeAlignmentCalls(primary, fallback) ==
    IF primary # "none"
    THEN [gemini_calls |-> 1, answer |-> primary]
    ELSE [gemini_calls |-> 2, answer |-> fallback]

\* GeminiClient.validate_pdf_comprehensive: the parsed fields, or the
\* all-False defaults when _call_gemini returned None.
PdfFields ==
    << "title_match", "expert_details_present", "learning_outcomes_align",
       "objectives_match", "participants_valid" >>
ValidatePdfComprehensive(answer) ==
    [k \in 1..Len(PdfFields) |-> answer = "YES"]

\* validate_pdf: one result per PDF rule from the unified call; rule 1 also
\* passes on the keyword heuristic.
ValidatePdf(answer, has_expert_keywords) ==
    LET v == ValidatePdfComprehensive(answer)
    IN  [k \in 1..Len(PDF_RULES) |->
            ValidationResult(PDF_RULES[k],
                             v[k] \/ (k = 2 /\ has_expert_keywords),
                             PdfMessages[k])]

\* One analyze_image call seen from outside: what _call_gemini(prompt,
\* image_path, use_cache=False) did (answered on its first network call,
\* refused by the open breaker without one, or failed on max_retries
\* calls), what groq_client.analyze_image did if there is a usable Groq
\* client, and the four judgements of whoever answered.
ImageFields ==
    << "has_banner", "is_real_event", "mode_matches", "has_20_plus_participants" >>
GeminiImageOutcomes ==
    { [text |-> TRUE, net |-> 1], [text |-> FALSE, net |-> 0],
      [text |-> FALSE, net |-> max_retries] }
GroqImageOutcomes == {"absent", "results", "none"}
ImageJudgements == [1..Len(ImageFields) -> BOOLEAN]
NoAnalysis == [k \in 1..Len(ImageFields) |-> FALSE]

\* GeminiClient.analyze_image: the dict returned, whether a provider
\* answered, and the provider network calls made.
AnalyzeImage(gemini, groq, judgement) ==
    IF gemini.text
    THEN [results |-> judgement, answered |-> TRUE, net |-> gemini.net]
    ELSE IF groq = "results"
    THEN [results |-> judgement, answered |-> TRUE, net |-> gemini.net + 1]
    ELSE [results |-> NoAnalysis, answered |-> FALSE,
          net |-> gemini.net + (IF groq = "none" THEN 1 ELSE 0)]

\* The k-th check of validate_images: it takes its own field from the
\* analysis it was given.
ImageCheck(k, analysis) ==
    ValidationResult(IMAGE_RULES[k], analysis.results[k], ImageMessages[k])

\* The placeholder results of process_submission for missing files.
MissingPdfResult ==
    [ criterion |-> "PDF Validation", passed |-> FALSE, points_awarded |-> 0,
      message |-> "PDF file missing or could not be downloaded" ]
MissingImageResult ==
    [ criterion |-> "Image Validation", passed |-> FALSE, points_awarded |-> 0,
      message |-> "Event photos missing or invalid" ]

RECURSIVE TotalPoints(_)
TotalPoints(results) ==
    IF results = << >> THEN 0
    ELSE Head(results).points_awarded + TotalPoints(Tail(results))

\* process_submission lines 277-291: the status of the submission.
StatusOf(pdf_missing, images_missing, total_points) ==
    IF pdf_missing THEN "Reopen"
    ELSE IF images_missing THEN "Reopen"
    ELSE IF total_points >= ACCEPTANCE_THRESHOLD THEN "Accepted"
    ELSE "Rejected"

\* The submission before any validation, and an idle runner.
\*   unanswered   history: the criteria whose provider gave no answer
\*   image_net    history: the image checks whose analyze_image call went
\*                to a provider over the network (retries not counted)
\*   theme_calls  history: the _call_gemini invocations of the theme check
NewSubmission(pdf_missing, images_missing) ==
    [ pc |-> "theme", pdf_missing |-> pdf_missing,
      images_missing |-> images_missing, image_check |-> 1,
      all_results |-> << >>, unanswered |-> {}, image_net |-> 0,
      theme_calls |-> 0,
      overall_score |-> 0, status |-> "" ]
NoSubmission == [NewSubmission(FALSE, FALSE) EXCEPT !.pc = "idle"]

(***************************************************************************)
(* validators/duplicate_validator.py, utils/blob_directory_scanner.py      *)
(***************************************************************************)
DupSubmissions == 1..MaxDupSubmissions

\* reset_batch_hash_tracker() at the start of a batch, in a fresh process:
\*   tracker     keys of _batch_hash_tracker
\*   directory   keys of _directory_hash_cache[cache_key]
\*   w           validate_duplicate_detection of each submission, by the
\*               worker that process_single_submission runs it on:
\*     pc               "queued", "scan", "store", "cache" or "done"
\*     sha              the SHA256 of its image; each submission carries
\*                      one image, and the perceptual hashes of identical
\*                      images are equal, so that step 3
\*                      (existing_phash != img_data.phash) skips them
\*     duplicate_found  the local flag; the result has passed = not flag
NewDuplicateCheck(shas) ==
    [ tracker |-> {}, directory |-> {},
      w |-> [k \in DupSubmissions |->
                [pc |-> "queued", sha |-> shas[k], duplicate_found |-> FALSE]] ]
NoDuplicateCheck ==
    [NewDuplicateCheck([k \in DupSubmissions |-> "h1"]) EXCEPT
        !.w = [k \in DupSubmissions |-> [@[k] EXCEPT !.pc = "done"]]]

(***************************************************************************)
(* The locks of the shared structures: TokenBucketRateLimiter._lock,       *)
(* CircuitBreaker._lock; the response caches and RequestBudget have none   *)
(***************************************************************************)
Structures == {"rate_limiter", "circuit_breaker", "response_cache", "budget"}

\* Whether the code that mutates structure s does so inside
\* `with self._lock:` (rate_limiter.py line 90, circuit_breaker.py lines
\* 78, 103, 129, 216); `_gemini_response_cache[cache_key] = response_text`
\* and RequestBudget.record_call take no lock.
HasLock(s) == s \in {"rate_limiter", "circuit_breaker"}

\* Nobody holds a lock and no thread is in a call.
\*   unlocked   history: the structures mutated by a thread that did not
\*              hold the structure's lock
\*   blocked    history: the threads that found a lock taken on arriving
NoLocks ==
    [ owner |-> [s \in Structures |-> 0],
      th |-> [t \in Threads |-> [pc |-> "idle", on |-> "rate_limiter",
                                 held |-> {}]],
      mutations |-> [s \in Structures |-> 0],
      unlocked |-> {}, blocked |-> {} ]

\* Thread t arrives at the `with self._lock:` of structure s.
ArriveAt(l, t, s) ==
    [l EXCEPT !.th[t] = [pc |-> "waiting", on |-> s, held |-> l.th[t].held],
              !.blocked = IF l.owner[s] # 0 THEN @ \cup {t} ELSE @]

\* Mutant: the lock stays taken when the call returns.
LeaveWith_KeepsLock(l, t, s) ==
    [l EXCEPT !.th[t].pc = "idle", !.th[t].held = @ \ {s}]

\* Thread t leaves the `with` block of structure s: the lock is released.
LeaveWith(l, t, s) ==
    [l EXCEPT !.owner[s] = 0, !.th[t].pc = "idle", !.th[t].held = @ \ {s}]

\* The structure after thread t has mutated it.
Mutated(l, t, s) ==
    [l EXCEPT !.mutations[s] = (@ + 1) % 2,
              !.unlocked = IF l.owner[s] = t THEN @ ELSE @ \cup {s}]

(***************************************************************************)
(* The components as constructed, for the runs that leave them alone       *)
(***************************************************************************)
RLFresh ==
    /\ rl = NewRateLimiter(MaxRPMConfig, DefaultSafetyPct, TRUE)
    /\ rl_hist = << >>
    /\ rl_calls = 0

CBFresh ==
    /\ cb = [p \in Providers |-> NewCircuitBreaker(StartTime)]
    /\ cb_hist = NewHist

\* get_groq_rate_limiter() with its defaults and GROQ_JITTER_ENABLED=false.
GroqRPMLimit == 25
GroqSafetyPct == 80
NewGroqLimiter == NewRateLimiter(GroqRPMLimit, GroqSafetyPct, FALSE)

\* get_rate_limiter() with its defaults and GEMINI_JITTER_ENABLED=false.
GeminiRPMLimit == 145

AppFresh ==
    /\ gemini_client = NoClient
    /\ rate_limit_callback = FALSE
    /\ rate_limit_detected = FALSE

ClientFresh ==
    /\ gemini_cache = {}
    /\ groq_cache = {}
    /\ groq_rl = NewGroqLimiter
    /\ inv = IdleInvocation
    /\ cl_hist = NewClHist(0, 0)

(***************************************************************************)
(* Runs of one rate limiter                                                *)
(***************************************************************************)
RLInit ==
    /\ now = StartTime
    /\ \E c \in 2..MaxRPMConfig, jit \in BOOLEAN :
          rl = NewRateLimiter(c, DefaultSafetyPct, jit)
    /\ rl_hist = << >>
    /\ rl_calls = 0
    /\ CBFresh
    /\ AppFresh
    /\ ClientFresh
    /\ batch = NoBatch
    /\ guard = NoGuard
    /\ sub = NoSubmission
    /\ lk = NoLocks
    /\ dup = NoDuplicateCheck

\* One acquire() call. The whole call runs under self._lock, the sleep
\* included, so no other caller of this limiter acts in between.
Acquire ==
    /\ rl_calls < MaxAcquires
    /\ \E wait \in BOOLEAN, tokens \in TokenChoices, j \in JitterChoices :
          LET res == AcquireResult(rl, now, wait, tokens, j)
          IN  /\ rl' = res.limiter
              /\ now' = res.request_time
              /\ rl_hist' = Append(rl_hist,
                     [at |-> res.request_time, waited |-> wait,
                      called_at |-> now, delay |-> res.delay,
                      at_limit |-> res.at_limit])
    /\ rl_calls' = rl_calls + 1
    /\ UNCHANGED <<cb_vars, app_vars, cl_vars, batch>>
    /\ UNCHANGED guard
    /\ UNCHANGED sub
    /\ UNCHANGED lk
    /\ UNCHANGED dup

\* Time passing between two calls on the limiter.
RLTick ==
    /\ rl_calls < MaxAcquires
    /\ \E d \in {20000, 61000} :
          /\ now + d <= StartTime + MaxWindows * WindowMs
          /\ now' = now + d
    /\ UNCHANGED <<rl_vars, cb_vars, app_vars, cl_vars, batch>>
    /\ UNCHANGED guard
    /\ UNCHANGED sub
    /\ UNCHANGED lk
    /\ UNCHANGED dup

\* reset(): the limiter forgets its admissions, and the history restarts.
RLReset ==
    /\ rl.request_times # << >>
    /\ rl' = [rl EXCEPT !.request_times = << >>, !.last_request_time = 0]
    /\ rl_hist' = << >>
    /\ UNCHANGED <<now, rl_calls, cb_vars, app_vars, cl_vars, batch>>
    /\ UNCHANGED guard
    /\ UNCHANGED sub
    /\ UNCHANGED lk
    /\ UNCHANGED dup


(***************************************************************************)
(* Runs of one circuit breaker                                             *)
(***************************************************************************)
CBInit ==
    /\ now = StartTime
    /\ CBFresh
    /\ RLFresh
    /\ AppFresh
    /\ ClientFresh
    /\ batch = NoBatch
    /\ guard = NoGuard
    /\ sub = NoSubmission
    /\ lk = NoLocks
    /\ dup = NoDuplicateCheck

CBRecordSuccess ==
    /\ cb["gemini"].total_requests < MaxRecorded
    /\ LET b2 == RecordSuccess(cb["gemini"], now)
       IN  /\ cb' = [cb EXCEPT !["gemini"] = b2]
           /\ cb_hist' = HistAfter(cb_hist, "record_success", cb["gemini"], b2, now)
    /\ UNCHANGED <<now, rl_vars, app_vars, cl_vars, batch>>
    /\ UNCHANGED guard
    /\ UNCHANGED sub
    /\ UNCHANGED lk
    /\ UNCHANGED dup

CBRecordError ==
    /\ cb["gemini"].total_requests < MaxRecorded
    /\ \E is_rate_limit \in BOOLEAN, later \in BOOLEAN :
          LET b2 == RecordError(cb["gemini"], is_rate_limit, now, later)
          IN  /\ cb' = [cb EXCEPT !["gemini"] = b2]
              /\ cb_hist' = [HistAfter(cb_hist, "record_error", cb["gemini"],
                                        b2, now)
                                EXCEPT !.is_rate_limit = is_rate_limit]
    /\ UNCHANGED <<now, rl_vars, app_vars, cl_vars, batch>>
    /\ UNCHANGED guard
    /\ UNCHANGED sub
    /\ UNCHANGED lk
    /\ UNCHANGED dup

CBCanProceed ==
    /\ LET res == CanProceed(cb["gemini"], now)
       IN  /\ cb' = [cb EXCEPT !["gemini"] = res.breaker]
           /\ cb_hist' = HistAfterCanProceed(cb_hist, cb["gemini"], res.breaker,
                                             res.ok, now)
    /\ UNCHANGED <<now, rl_vars, app_vars, cl_vars, batch>>
    /\ UNCHANGED guard
    /\ UNCHANGED sub
    /\ UNCHANGED lk
    /\ UNCHANGED dup

CBReset ==
    /\ cb["gemini"] # NewCircuitBreaker(now)
    /\ LET b2 == ResetBreaker(cb["gemini"], now)
       IN  /\ cb' = [cb EXCEPT !["gemini"] = b2]
           /\ cb_hist' = HistAfter(cb_hist, "reset", cb["gemini"], b2, now)
    /\ UNCHANGED <<now, rl_vars, app_vars, cl_vars, batch>>
    /\ UNCHANGED guard
    /\ UNCHANGED sub
    /\ UNCHANGED lk
    /\ UNCHANGED dup

CBTick ==
    /\ now + CBTickMs <= StartTime + MaxCBTicks * CBTickMs
    /\ now' = now + CBTickMs
    /\ cb_hist' = [cb_hist EXCEPT !.op = "tick"]
    /\ UNCHANGED <<cb, rl_vars, app_vars, cl_vars, batch>>
    /\ UNCHANGED guard
    /\ UNCHANGED sub
    /\ UNCHANGED lk
    /\ UNCHANGED dup

(***************************************************************************)
(* Runs of the client: one thread making _call_gemini invocations          *)
(***************************************************************************)
\* A fresh process, or one whose earlier validate_batch carried a
\* gemini_api_key (so its client was created at line 269 and no callback is
\* registered) and left calls recorded on the Gemini breaker; the run is
\* one invocation with up to MaxFaults provider failures, or MaxInvocations
\* invocations with up to CacheRunFaults.
ClientInit ==
    /\ now = StartTime
    /\ rl = NewRateLimiter(GeminiRPMLimit, DefaultSafetyPct, FALSE)
    /\ rl_hist = << >>
    /\ rl_calls = 0
    /\ \E warm \in BOOLEAN :
          /\ cb = [p \in Providers |->
                    IF warm /\ p = "gemini" THEN WarmBreaker ELSE AbsentBreaker]
          /\ gemini_client = IF warm THEN NewGeminiClient(TRUE, "ok") ELSE NoClient
    /\ cb_hist = NewHist
    /\ rate_limit_callback = FALSE
    /\ rate_limit_detected = FALSE
    /\ gemini_cache = {}
    /\ groq_cache = {}
    /\ groq_rl = NewGroqLimiter
    /\ inv = IdleInvocation
    /\ \E run \in {<<1, MaxFaults>>, <<MaxInvocations, CacheRunFaults>>} :
          cl_hist = NewClHist(run[1], run[2])
    /\ batch = NoBatch
    /\ guard = NoGuard
    /\ sub = NoSubmission
    /\ lk = NoLocks
    /\ dup = NoDuplicateCheck

\* validate_batch up to `gemini_client = get_gemini_client()` (app.py lines
\* 258-273), or health_check's get_gemini_client(): with a gemini_api_key
\* parameter the client is replaced first; get_gemini_client creates the
\* client, and registers the callback, only if there is none.
GetGeminiClient ==
    /\ inv.pc \in {"idle", "done"}
    /\ cl_hist.clients < MaxClients
    /\ cl_hist' = [cl_hist EXCEPT !.clients = @ + 1]
    /\ \E override \in BOOLEAN, gemini_ok \in BOOLEAN, groq \in {"absent", "no_client", "ok"} :
          /\ override \/ ~gemini_client.created
          /\ gemini_client' = ClientAfterGet(gemini_client, override,
                                              gemini_ok, groq)
          /\ rate_limit_callback' =
                CallbackAfterGet(rate_limit_callback, gemini_client, override)
          /\ gemini_client' # gemini_client \/ rate_limit_callback' # rate_limit_callback
    /\ UNCHANGED <<now, rl_vars, cb_vars, rate_limit_detected, gemini_cache,
                   groq_cache, groq_rl, inv, batch>>
    /\ UNCHANGED guard
    /\ UNCHANGED sub
    /\ UNCHANGED lk
    /\ UNCHANGED dup

\* _call_gemini from its entry to the retry loop (lines 130-200).
StartInvocation ==
    /\ gemini_client.created
    /\ inv.pc \in {"idle", "done"}
    /\ cl_hist.invocations_left > 0
    /\ \E prompt \in {"p1", "p2"},
          model_arg \in {"default", "gemini-2.0-flash"}, image \in Images,
          use_cache \in BOOLEAN :
          LET model == EffectiveModel(model_arg)
              key == GeminiLookupKey(prompt, model, image, use_cache)
              i == [IdleInvocation EXCEPT
                      !.prompt = prompt, !.model = model, !.image = image,
                      !.use_cache = use_cache,
                      !.primary = gemini_client.gemini_ok,
                      !.groq_avail = gemini_client.groq,
                      !.answered_before =
                          <<prompt, model, image>> \in cl_hist.answered,
                      !.open_miss =
                          /\ OpenNow(cb["gemini"], now)
                          /\ (key = NoHash \/ key \notin gemini_cache)]
              cp == CanProceed(GetBreaker(cb["gemini"], now), now)
              acq == AcquireResult(rl, now, TRUE,
                                   EstimateTokens(prompt, image # "none"), 10)
          IN  IF ~gemini_client.gemini_ok
              THEN /\ inv' = IF gemini_client.groq = "ok" /\ image = "none"
                             THEN ToGroq(i, GroqTextModel)
                             ELSE Finish(i, "none")
                   /\ UNCHANGED <<now, rl, cb>>
              ELSE IF CacheGet(gemini_cache, key) # "miss"
              THEN /\ inv' = Finish(i, CacheGet(gemini_cache, key))
                   /\ UNCHANGED <<now, rl, cb>>
              ELSE IF ~cp.ok
              THEN /\ inv' = IF FallbackOnOpenBreaker(gemini_client, image)
                             THEN ToGroq(i, GroqTextModel)
                             ELSE Finish(i, "none")
                   /\ cb' = [cb EXCEPT !["gemini"] = cp.breaker]
                   /\ UNCHANGED <<now, rl>>
              ELSE /\ inv' = [i EXCEPT !.pc = "gemini_attempt",
                                        !.gemini_acquires = 1]
                   /\ cb' = [cb EXCEPT !["gemini"] = cp.breaker]
                   /\ rl' = acq.limiter
                   /\ now' = acq.request_time
    /\ cl_hist' = [cl_hist EXCEPT !.invocations_left = @ - 1]
    /\ UNCHANGED <<rl_hist, rl_calls, cb_hist, app_vars, gemini_cache,
                   groq_cache, groq_rl, batch>>
    /\ UNCHANGED guard
    /\ UNCHANGED sub
    /\ UNCHANGED lk
    /\ UNCHANGED dup

\* One pass of the retry loop of _call_gemini (lines 201-358).
GeminiAttempt ==
    /\ inv.pc = "gemini_attempt"
    /\ \E outcome \in Outcomes, hint \in HintChoices, later \in BOOLEAN :
          LET fault == outcome \in {"throttle", "error"}
              b == GetBreaker(cb["gemini"], now)
              cp == IF inv.attempt > 0 THEN CanProceed(b, now)
                    ELSE [ok |-> TRUE, breaker |-> b]
              res == GeminiCall(inv, gemini_client, cp.breaker, rl, now,
                                outcome, hint, later)
          IN  /\ fault => cl_hist.faults_left > 0
              /\ IF ~cp.ok
                 THEN /\ inv' = IF FallbackOnOpenBreaker(gemini_client, inv.image)
                                THEN ToGroq(inv, GroqTextModel)
                                ELSE Finish(inv, "none")
                      /\ cb' = [cb EXCEPT !["gemini"] = cp.breaker]
                      /\ UNCHANGED <<now, rl, rate_limit_detected, gemini_cache,
                                     cl_hist>>
                 ELSE /\ inv' = res.inv
                      /\ cb' = [cb EXCEPT !["gemini"] = res.breaker]
                      /\ rl' = res.limiter
                      /\ now' = res.time
                      /\ rate_limit_detected' =
                            (rate_limit_detected
                                \/ (res.signal /\ rate_limit_callback))
                      /\ gemini_cache' =
                            IF res.store
                            THEN gemini_cache \cup
                                   {GeminiStoreKey(inv.prompt, inv.model, inv.image)}
                            ELSE gemini_cache
                      /\ cl_hist' = [cl_hist EXCEPT
                            !.faults_left = IF fault THEN @ - 1 ELSE @,
                            !.answered =
                                IF res.store
                                THEN @ \cup {<<inv.prompt, inv.model, inv.image>>}
                                ELSE @]
    /\ UNCHANGED <<rl_hist, rl_calls, cb_hist, gemini_client,
                   rate_limit_callback, groq_cache, groq_rl, batch>>
    /\ UNCHANGED guard
    /\ UNCHANGED sub
    /\ UNCHANGED lk
    /\ UNCHANGED dup

\* _call_groq from its entry to the retry loop (groq_client.py lines 82-105).
GroqStart ==
    /\ inv.pc = "groq_start"
    /\ LET i == [inv EXCEPT !.groq_calls = @ + 1]
           cp == CanProceed(GetBreaker(cb["groq"], now), now)
           acq == AcquireResult(groq_rl, now, TRUE,
                                EstimateTokens(inv.prompt, FALSE), 10)
       IN  IF gemini_client.groq # "ok"
           THEN /\ inv' = Finish(i, "none")
                /\ UNCHANGED <<now, cb, groq_rl>>
           ELSE IF inv.use_cache
                   /\ CacheGet(groq_cache,
                               GroqCacheKey(inv.prompt, inv.groq_model)) # "miss"
           THEN /\ inv' = Finish(i, CacheGet(groq_cache,
                                   GroqCacheKey(inv.prompt, inv.groq_model)))
                /\ UNCHANGED <<now, cb, groq_rl>>
           ELSE IF ~cp.ok
           THEN /\ inv' = Finish(i, "none")
                /\ cb' = [cb EXCEPT !["groq"] = cp.breaker]
                /\ UNCHANGED <<now, groq_rl>>
           ELSE /\ inv' = [i EXCEPT !.pc = "groq_attempt",
                                     !.groq_acquires = 1]
                /\ cb' = [cb EXCEPT !["groq"] = cp.breaker]
                /\ groq_rl' = acq.limiter
                /\ now' = acq.request_time
    /\ UNCHANGED <<rl_vars, cb_hist, app_vars, gemini_cache, groq_cache,
                   cl_hist, batch>>
    /\ UNCHANGED guard
    /\ UNCHANGED sub
    /\ UNCHANGED lk
    /\ UNCHANGED dup

\* One pass of the retry loop of _call_groq (groq_client.py lines 107-209).
GroqAttempt ==
    /\ inv.pc = "groq_attempt"
    /\ \E outcome \in Outcomes, hint \in HintChoices, later \in BOOLEAN :
          LET fault == outcome \in {"throttle", "error"}
              b == GetBreaker(cb["groq"], now)
              cp == IF inv.groq_attempt > 0 THEN CanProceed(b, now)
                    ELSE [ok |-> TRUE, breaker |-> b]
              res == GroqCall(inv, cp.breaker, groq_rl, now, outcome, hint, later)
          IN  /\ fault => cl_hist.faults_left > 0
              /\ IF ~cp.ok
                 THEN /\ inv' = Finish(inv, "none")
                      /\ cb' = [cb EXCEPT !["groq"] = cp.breaker]
                      /\ UNCHANGED <<now, groq_rl, groq_cache, cl_hist>>
                 ELSE /\ inv' = res.inv
                      /\ cb' = [cb EXCEPT !["groq"] = res.breaker]
                      /\ groq_rl' = res.limiter
                      /\ now' = res.time
                      /\ groq_cache' =
                            IF outcome = "text" /\ inv.use_cache
                            THEN groq_cache \cup
                                   {GroqCacheKey(inv.prompt, inv.groq_model)}
                            ELSE groq_cache
                      /\ cl_hist' = [cl_hist EXCEPT
                            !.faults_left = IF fault THEN @ - 1 ELSE @]
    /\ UNCHANGED <<rl_vars, cb_hist, app_vars, gemini_cache, batch>>
    /\ UNCHANGED guard
    /\ UNCHANGED sub
    /\ UNCHANGED lk
    /\ UNCHANGED dup

\* Time passing between two invocations.
ClientTick ==
    /\ inv.pc = "done"
    /\ cl_hist.invocations_left > 0
    /\ cl_hist.ticks < MaxClientTicks
    /\ now' = now + cooldown_duration
    /\ cl_hist' = [cl_hist EXCEPT !.ticks = @ + 1]
    /\ UNCHANGED <<rl_vars, cb_vars, app_vars, gemini_cache, groq_cache,
                   groq_rl, inv, batch>>
    /\ UNCHANGED guard
    /\ UNCHANGED sub
    /\ UNCHANGED lk
    /\ UNCHANGED dup

(***************************************************************************)
(* Runs of the batch coordinator: validate_batch requests, one at a time   *)
(* (the handler is a coroutine that never awaits)                          *)
(***************************************************************************)
BatchInit ==
    /\ now = StartTime
    /\ RLFresh
    /\ CBFresh
    /\ AppFresh
    /\ ClientFresh
    /\ batch = NoBatch
    /\ guard = NoGuard
    /\ sub = NoSubmission
    /\ lk = NoLocks
    /\ dup = NoDuplicateCheck

\* validate_batch from its entry to the choice of the mode (lines 258-282).
StartBatch ==
    /\ batch.phase \in {"idle", "returned"}
    /\ batch.index < MaxBatches
    /\ \E n \in 1..MaxSubmissions, override \in BOOLEAN :
          /\ gemini_client' = ClientAfterGet(gemini_client, override, TRUE, "ok")
          /\ rate_limit_callback' =
                CallbackAfterGet(rate_limit_callback, gemini_client, override)
          /\ batch' = NewBatch(batch.index + 1, n, rate_limit_detected)
    /\ UNCHANGED <<now, rl_vars, cb_vars, rate_limit_detected, cl_vars>>
    /\ UNCHANGED guard
    /\ UNCHANGED sub
    /\ UNCHANGED lk
    /\ UNCHANGED dup

\* The next submission is taken in hand: by the loop of the sequential
\* mode (line 287) or by a free worker of the pool (lines 344-349).
StartSubmission ==
    /\ batch.phase \in {"sequential", "parallel"}
    /\ Pending(batch) # {}
    /\ Cardinality(Running(batch)) < MaxRunning(batch)
    /\ batch' = [batch EXCEPT !.status[CHOOSE i \in Pending(batch) :
                                        \A j \in Pending(batch) : i <= j]
                                 = "running"]
    /\ UNCHANGED <<now, rl_vars, cb_vars, app_vars, cl_vars>>
    /\ UNCHANGED guard
    /\ UNCHANGED sub
    /\ UNCHANGED lk
    /\ UNCHANGED dup

\* A _call_gemini made for a submission in hand gets a throttling error
\* and reaches the callback (gemini_client.py lines 298-302).
ObserveThrottle ==
    /\ batch.phase \in {"sequential", "parallel"}
    /\ Running(batch) # {}
    /\ rate_limit_callback
    /\ ~rate_limit_detected
    /\ rate_limit_detected' = TRUE
    /\ UNCHANGED <<now, rl_vars, cb_vars, gemini_client, rate_limit_callback,
                   cl_vars, batch>>
    /\ UNCHANGED guard
    /\ UNCHANGED sub
    /\ UNCHANGED lk
    /\ UNCHANGED dup

\* process_submission returns or raises for a submission in hand (lines
\* 289-307, 319-344): the row is kept under its index, and in the pool an
\* exception whose text names a rate limit sets the flag.
FinishSubmission ==
    /\ batch.phase \in {"sequential", "parallel"}
    /\ \E i \in Running(batch), outcome \in SubmissionOutcomes :
          /\ batch' = Finished(batch, i, outcome)
          /\ rate_limit_detected' =
                (rate_limit_detected
                    \/ (batch.phase = "parallel" /\ outcome = "rate_limit_error"))
    /\ UNCHANGED <<now, rl_vars, cb_vars, gemini_client, rate_limit_callback,
                   cl_vars>>
    /\ UNCHANGED guard
    /\ UNCHANGED sub
    /\ UNCHANGED lk
    /\ UNCHANGED dup

\* All submissions are done: the pool's rows are put in input order (line
\* 374) and the response is built.
ReturnBatch ==
    /\ batch.phase \in {"sequential", "parallel"}
    /\ \A i \in 1..batch.n : batch.status[i] = "done"
    /\ batch' = [batch EXCEPT
          !.phase = "returned",
          !.results = IF batch.phase = "parallel" THEN Reassemble(batch) ELSE @]
    /\ UNCHANGED <<now, rl_vars, cb_vars, app_vars, cl_vars>>
    /\ UNCHANGED guard
    /\ UNCHANGED sub
    /\ UNCHANGED lk
    /\ UNCHANGED dup

(***************************************************************************)
(* Runs of the concurrency guards: threads entering and leaving them       *)
(***************************************************************************)
GuardInit ==
    /\ now = StartTime
    /\ RLFresh
    /\ CBFresh
    /\ AppFresh
    /\ ClientFresh
    /\ batch = NoBatch
    /\ guard = NoGuard
    /\ sub = NoSubmission
    /\ lk = NoLocks
    /\ dup = NoDuplicateCheck

\* `semaphore = _get_..._semaphore()` at the head of a guard.
GuardEnter ==
    /\ \E t \in Threads, p \in Providers :
          /\ guard.th[t].pc = "idle"
          /\ LET g == GetSemaphore(guard, p)
             IN  guard' = [g EXCEPT !.th[t] =
                    [pc |-> "acquiring", provider |-> p, sem |-> g.current[p],
                     acquired |-> FALSE]]
    /\ UNCHANGED <<now, rl_vars, cb_vars, app_vars, cl_vars, batch>>
    /\ UNCHANGED sub
    /\ UNCHANGED lk
    /\ UNCHANGED dup

\* semaphore.acquire() returns, once a permit is free: acquired = True and
\* the guarded block is entered.
GuardAcquire ==
    /\ \E t \in Threads :
          /\ guard.th[t].pc = "acquiring"
          /\ guard.sems[guard.th[t].sem].value > 0
          /\ guard' = [guard EXCEPT !.sems[guard.th[t].sem].value = @ - 1,
                                    !.th[t].pc = "inside",
                                    !.th[t].acquired = TRUE]
    /\ UNCHANGED <<now, rl_vars, cb_vars, app_vars, cl_vars, batch>>
    /\ UNCHANGED sub
    /\ UNCHANGED lk
    /\ UNCHANGED dup

\* The guarded block is left, by its end or by an exception (the provider
\* call raised).
GuardExit ==
    /\ \E t \in Threads, how \in {"return", "exception"} :
          /\ guard.th[t].pc = "inside"
          /\ guard' = Released(guard, t, how)
    /\ UNCHANGED <<now, rl_vars, cb_vars, app_vars, cl_vars, batch>>
    /\ UNCHANGED sub
    /\ UNCHANGED lk
    /\ UNCHANGED dup

\* reset_semaphores(): both module variables become None.
GuardReset ==
    /\ guard.resets < MaxResets
    /\ guard' = [guard EXCEPT !.current = [p \in Providers |-> 0],
                              !.resets = @ + 1]
    /\ UNCHANGED <<now, rl_vars, cb_vars, app_vars, cl_vars, batch>>
    /\ UNCHANGED sub
    /\ UNCHANGED lk
    /\ UNCHANGED dup

(***************************************************************************)
(* Runs of process_submission on one submission                            *)
(***************************************************************************)
\* A submission with a theme whose files were fetched, or not.
SubInit ==
    /\ now = StartTime
    /\ RLFresh
    /\ CBFresh
    /\ AppFresh
    /\ ClientFresh
    /\ batch = NoBatch
    /\ guard = NoGuard
    /\ \E pdf_missing \in BOOLEAN, images_missing \in BOOLEAN :
          sub = NewSubmission(pdf_missing, images_missing)
    /\ lk = NoLocks
    /\ dup = NoDuplicateCheck

\* validate_theme: the semantic alignment check and the two checks on the
\* row's own fields.
ValidateTheme ==
    /\ sub.pc = "theme"
    /\ \E primary \in ProviderAnswers, fallback \in ProviderAnswers,
          level_ok \in BOOLEAN, participants_ok \in BOOLEAN :
        LET check == ThemeAlignmentCalls(primary, fallback)
            answer == check.answer
        IN
          sub' = [sub EXCEPT
                    !.pc = "pdf",
                    !.theme_calls = check.gemini_calls,
                    !.all_results = @ \o
                        << ValidationResult(THEME_RULES[1],
                                            CheckThemeAlignment(answer),
                                            ThemeMessages[1]),
                           ValidationResult(THEME_RULES[2], level_ok,
                                            ThemeMessages[2]),
                           ValidationResult(THEME_RULES[3], participants_ok,
                                            ThemeMessages[3]) >>,
                    !.unanswered = IF answer = "none"
                                   THEN @ \cup {THEME_RULES[1].name} ELSE @]
    /\ UNCHANGED <<now, rl_vars, cb_vars, app_vars, cl_vars, batch, guard>>
    /\ UNCHANGED lk
    /\ UNCHANGED dup

\* validate_pdf on a submission with PDF text: one provider call for the
\* five rules.
ValidatePdfStep ==
    /\ sub.pc = "pdf"
    /\ ~sub.pdf_missing
    /\ \E answer \in ProviderAnswers, has_expert_keywords \in BOOLEAN :
          LET r == ValidatePdf(answer, has_expert_keywords)
          IN  sub' = [sub EXCEPT
                        !.pc = "image",
                        !.all_results = @ \o r,
                        !.unanswered =
                            IF answer = "none"
                            THEN @ \cup {PDF_RULES[k].name :
                                           k \in 1..Len(PDF_RULES)}
                            ELSE @]
    /\ UNCHANGED <<now, rl_vars, cb_vars, app_vars, cl_vars, batch, guard>>
    /\ UNCHANGED lk
    /\ UNCHANGED dup

\* process_submission without PDF data.
SkipPdf ==
    /\ sub.pc = "pdf"
    /\ sub.pdf_missing
    /\ sub' = [sub EXCEPT !.pc = "image",
                          !.all_results = Append(@, MissingPdfResult)]
    /\ UNCHANGED <<now, rl_vars, cb_vars, app_vars, cl_vars, batch, guard>>
    /\ UNCHANGED lk
    /\ UNCHANGED dup

\* One of the four checks of validate_images: it calls analyze_image on
\* submission.images[0] itself.
ValidateImageCheck ==
    /\ sub.pc = "image"
    /\ ~sub.images_missing
    /\ \E gemini \in GeminiImageOutcomes, groq \in GroqImageOutcomes,
          judgement \in ImageJudgements :
          LET k == sub.image_check
              analysis == AnalyzeImage(gemini, groq, judgement)
          IN  sub' = [sub EXCEPT
                        !.pc = IF k = Len(IMAGE_RULES) THEN "duplicates" ELSE @,
                        !.image_check = IF k = Len(IMAGE_RULES) THEN @ ELSE k + 1,
                        !.all_results = Append(@, ImageCheck(k, analysis)),
                        !.unanswered = IF analysis.answered THEN @
                                       ELSE @ \cup {IMAGE_RULES[k].name},
                        !.image_net = IF analysis.net > 0 THEN @ + 1 ELSE @]
    /\ UNCHANGED <<now, rl_vars, cb_vars, app_vars, cl_vars, batch, guard>>
    /\ UNCHANGED lk
    /\ UNCHANGED dup

\* process_submission without images.
SkipImages ==
    /\ sub.pc = "image"
    /\ sub.images_missing
    /\ sub' = [sub EXCEPT !.pc = "duplicates",
                          !.all_results = Append(@, MissingImageResult)]
    /\ UNCHANGED <<now, rl_vars, cb_vars, app_vars, cl_vars, batch, guard>>
    /\ UNCHANGED lk
    /\ UNCHANGED dup

\* validate_duplicates, the score and the status (lines 243-291).
ScoreSubmission ==
    /\ sub.pc = "duplicates"
    /\ \E duplicate_free \in BOOLEAN :
          LET results == Append(sub.all_results,
                            ValidationResult(SIMILARITY_RULES[1], duplicate_free,
                                             "Duplicate photo detected"))
              total_points == TotalPoints(results)
          IN  sub' = [sub EXCEPT
                        !.pc = "done",
                        !.all_results = results,
                        !.overall_score = total_points,
                        !.status = StatusOf(sub.pdf_missing, sub.images_missing,
                                            total_points)]
    /\ UNCHANGED <<now, rl_vars, cb_vars, app_vars, cl_vars, batch, guard>>
    /\ UNCHANGED lk
    /\ UNCHANGED dup

(***************************************************************************)
(* Runs of threads on the shared structures                                *)
(***************************************************************************)
LockInit ==
    /\ now = StartTime
    /\ RLFresh
    /\ CBFresh
    /\ AppFresh
    /\ ClientFresh
    /\ batch = NoBatch
    /\ guard = NoGuard
    /\ sub = NoSubmission
    /\ lk = NoLocks
    /\ dup = NoDuplicateCheck

\* A thread calls acquire() or record_success() / record_error() /
\* can_proceed(): it reaches `with self._lock:`.
LockEnter ==
    /\ \E t \in Threads, s \in {x \in Structures : HasLock(x)} :
          /\ lk.th[t].pc = "idle"
          /\ lk' = ArriveAt(lk, t, s)
    /\ UNCHANGED <<now, rl_vars, cb_vars, app_vars, cl_vars, batch, guard,
                   sub>>
    /\ UNCHANGED dup

\* The lock is free and the thread takes it.
LockTake ==
    /\ \E t \in Threads :
          /\ lk.th[t].pc = "waiting"
          /\ lk.owner[lk.th[t].on] = 0
          /\ lk' = [lk EXCEPT !.owner[lk.th[t].on] = t,
                              !.th[t].pc = "holding",
                              !.th[t].held = @ \cup {lk.th[t].on}]
    /\ UNCHANGED <<now, rl_vars, cb_vars, app_vars, cl_vars, batch, guard,
                   sub>>
    /\ UNCHANGED dup

\* The body of the `with` block: the structure is mutated (acquire()
\* sleeps here too) and the lock is released on leaving the block.
LockedCall ==
    /\ \E t \in Threads :
          /\ lk.th[t].pc = "holding"
          /\ LET s == lk.th[t].on
             IN  lk' = LeaveWith(Mutated(lk, t, s), t, s)
    /\ UNCHANGED <<now, rl_vars, cb_vars, app_vars, cl_vars, batch, guard,
                   sub>>
    /\ UNCHANGED dup

\* gemini_client.py line 266, groq_client.py lines 141 and 150, and
\* RequestBudget.record_call: the dict or the counter is written directly.
UnlockedCall ==
    /\ \E t \in Threads, s \in {x \in Structures : ~HasLock(x)} :
          /\ lk.th[t].pc = "idle"
          /\ lk' = Mutated(lk, t, s)
    /\ UNCHANGED <<now, rl_vars, cb_vars, app_vars, cl_vars, batch, guard,
                   sub>>
    /\ UNCHANGED dup

(***************************************************************************)
(* Runs of concurrent callers on one rate limiter                          *)
(***************************************************************************)
RLThreadsInit ==
    /\ now = StartTime
    /\ \E jit \in BOOLEAN : rl = NewRateLimiter(MaxRPMConfig, DefaultSafetyPct, jit)
    /\ rl_hist = << >>
    /\ rl_calls = 0
    /\ CBFresh
    /\ AppFresh
    /\ ClientFresh
    /\ batch = NoBatch
    /\ guard = NoGuard
    /\ sub = NoSubmission
    /\ lk = NoLocks
    /\ dup = NoDuplicateCheck

\* Thread t calls acquire(wait=True) and reaches `with self._lock:`.
AcquireCall(t) ==
    /\ rl_calls < MaxAcquires
    /\ lk.th[t].pc = "idle"
    /\ lk' = ArriveAt(lk, t, "rate_limiter")
    /\ rl_calls' = rl_calls + 1
    /\ UNCHANGED <<now, rl, rl_hist, cb_vars, app_vars, cl_vars, batch, guard,
                   sub>>
    /\ UNCHANGED dup

\* Thread t gets the limiter's lock.
AcquireLock(t) ==
    /\ lk.th[t].pc = "waiting"
    /\ lk.th[t].on = "rate_limiter"
    /\ lk.owner["rate_limiter"] = 0
    /\ lk' = [lk EXCEPT !.owner["rate_limiter"] = t,
                        !.th[t].pc = "holding",
                        !.th[t].held = @ \cup {"rate_limiter"}]
    /\ UNCHANGED <<now, rl_vars, cb_vars, app_vars, cl_vars, batch, guard,
                   sub>>
    /\ UNCHANGED dup

\* The body of acquire() (lines 91-147): the delay is computed and slept
\* with the lock held, the timestamp is appended and the call returns.
AcquireBody(t) ==
    /\ lk.th[t].pc = "holding"
    /\ lk.th[t].on = "rate_limiter"
    /\ \E tokens \in TokenChoices, j \in JitterChoices :
          LET res == AcquireResult(rl, now, TRUE, tokens, j)
          IN  /\ rl' = res.limiter
              /\ now' = res.request_time
              /\ rl_hist' = Append(rl_hist,
                     [at |-> res.request_time, waited |-> TRUE,
                      called_at |-> now, delay |-> res.delay,
                      at_limit |-> res.at_limit])
    /\ lk' = LeaveWith(Mutated(lk, t, "rate_limiter"), t, "rate_limiter")
    /\ UNCHANGED <<rl_calls, cb_vars, app_vars, cl_vars, batch, guard,
                   sub>>
    /\ UNCHANGED dup

(***************************************************************************)
(* The workers of one batch in validate_duplicate_detection                *)
(***************************************************************************)
\* validate_batch has reset the tracker and submitted every row to the
\* pool (app.py lines 276 and 348-353).
DupInit ==
    /\ now = StartTime
    /\ RLFresh
    /\ CBFresh
    /\ AppFresh
    /\ ClientFresh
    /\ batch = NoBatch
    /\ guard = NoGuard
    /\ sub = NoSubmission
    /\ lk = NoLocks
    /\ \E shas \in [DupSubmissions -> {"h1", "h2"}] :
          dup = NewDuplicateCheck(shas)

\* Step 1: `if img_data.sha256 in _batch_hash_tracker` (line 88). A match
\* sets duplicate_found and skips the else branch.
CheckBatchTracker ==
    /\ \E k \in DupSubmissions :
          /\ dup.w[k].pc = "queued"
          /\ dup' = IF dup.w[k].sha \in dup.tracker
                    THEN [dup EXCEPT !.w[k].duplicate_found = TRUE,
                                     !.w[k].pc = "done"]
                    ELSE [dup EXCEPT !.w[k].pc = "scan"]
    /\ UNCHANGED <<now, rl_vars, cb_vars, app_vars, cl_vars, batch, guard,
                   sub, lk>>

\* Step 2: scan_directory_for_duplicates (lines 104-132); step 4 is under
\* `if not duplicate_found`.
ScanDirectory ==
    /\ \E k \in DupSubmissions :
          /\ dup.w[k].pc = "scan"
          /\ dup' = IF dup.w[k].sha \in dup.directory
                    THEN [dup EXCEPT !.w[k].duplicate_found = TRUE,
                                     !.w[k].pc = "done"]
                    ELSE [dup EXCEPT !.w[k].pc = "store"]
    /\ UNCHANGED <<now, rl_vars, cb_vars, app_vars, cl_vars, batch, guard,
                   sub, lk>>

\* Step 4: _batch_hash_tracker[img_data.sha256] = {...} (lines 154-159)
StoreInTracker ==
    /\ \E k \in DupSubmissions :
          /\ dup.w[k].pc = "store"
          /\ dup' = [dup EXCEPT !.tracker = @ \cup {dup.w[k].sha},
                                !.w[k].pc = "cache"]
    /\ UNCHANGED <<now, rl_vars, cb_vars, app_vars, cl_vars, batch, guard,
                   sub, lk>>

\* Step 4: directory_scanner.add_file_to_cache (lines 162-169), and the
\* result is returned.
AddFileToCache ==
    /\ \E k \in DupSubmissions :
          /\ dup.w[k].pc = "cache"
          /\ dup' = [dup EXCEPT !.directory = @ \cup {dup.w[k].sha},
                                !.w[k].pc = "done"]
    /\ UNCHANGED <<now, rl_vars, cb_vars, app_vars, cl_vars, batch, guard,
                   sub, lk>>

(***************************************************************************)
(* The process creating its rate limiter                                   *)
(***************************************************************************)
\* No limiter has been asked for yet.
RLConfigInit ==
    /\ now = StartTime
    /\ rl = NoRateLimiter
    /\ rl_hist = << >>
    /\ rl_calls = 0
    /\ CBFresh
    /\ AppFresh
    /\ ClientFresh
    /\ batch = NoBatch
    /\ guard = NoGuard
    /\ sub = NoSubmission
    /\ lk = NoLocks
    /\ dup = NoDuplicateCheck

\* get_rate_limiter() on its first call: the limiter is built from
\* GEMINI_RPM_LIMIT, RATE_LIMIT_SAFETY_FACTOR (in percent) and
\* GEMINI_JITTER_ENABLED.
GetRateLimiter ==
    /\ rl = NoRateLimiter
    /\ \E c \in 1..MaxConfiguredRPM,
          safety \in {10, 50, 80, DefaultSafetyPct, SafetyCapPct, 96, 100},
          jit \in BOOLEAN :
          rl' = NewRateLimiter(c, safety, jit)
    /\ UNCHANGED <<now, rl_hist, rl_calls, cb_vars, app_vars, cl_vars, batch,
                   guard, sub, lk>>
    /\ UNCHANGED dup

vars == <<now, rl_vars, cb_vars, app_vars, cl_vars, batch, guard, sub,
          lk, dup>>

RLNext == Acquire \/ RLTick \/ RLReset
SpecRL == RLInit /\ [][RLNext]_vars

CBNext == CBRecordSuccess \/ CBRecordError \/ CBCanProceed \/ CBReset \/ CBTick
SpecCB == CBInit /\ [][CBNext]_vars

ClientNext ==
    \/ GetGeminiClient \/ StartInvocation \/ GeminiAttempt
    \/ GroqStart \/ GroqAttempt \/ ClientTick
SpecClient == ClientInit /\ [][ClientNext]_vars

BatchNext ==
    \/ StartBatch \/ StartSubmission \/ ObserveThrottle
    \/ FinishSubmission \/ ReturnBatch
SpecBatch == BatchInit /\ [][BatchNext]_vars

GuardNext == GuardEnter \/ GuardAcquire \/ GuardExit \/ GuardReset
SpecGuard == GuardInit /\ [][GuardNext]_vars

SubNext ==
    \/ ValidateTheme \/ ValidatePdfStep \/ SkipPdf
    \/ ValidateImageCheck \/ SkipImages \/ ScoreSubmission
SpecSubmission == SubInit /\ [][SubNext]_vars

LockNext == LockEnter \/ LockTake \/ LockedCall \/ UnlockedCall
SpecLocks == LockInit /\ [][LockNext]_vars

\* The scheduler is fair to every thread: one that can take the lock again
\* and again does take it, and a sleeping holder wakes up.
RLThreadsNext ==
    \E t \in Threads : AcquireCall(t) \/ AcquireLock(t) \/ AcquireBody(t)
SpecRLThreads ==
    /\ RLThreadsInit
    /\ [][RLThreadsNext]_vars
    /\ \A t \in Threads : SF_vars(AcquireLock(t)) /\ WF_vars(AcquireBody(t))

DupNext ==
    CheckBatchTracker \/ ScanDirectory \/ StoreInTracker \/ AddFileToCache
SpecDuplicates == DupInit /\ [][DupNext]_vars

RLConfigNext == GetRateLimiter
SpecRLConfig == RLConfigInit /\ [][RLConfigNext]_vars

(***************************************************************************)
(* Claims on the rate limiter                                              *)
(***************************************************************************)
\* Admissions of the history that lie within the trailing 60 s of `now`.
TrailingAdmissions ==
    {i \in 1..Len(rl_hist) : rl_hist[i].at > now - WindowMs}

AllWaited == \A i \in 1..Len(rl_hist) : rl_hist[i].waited

\* C1: at every instant the number of admission timestamps within the
\* trailing 60 seconds is at most the effective ceiling requests_per_minute,
\* for every jitter and token multiplier (stated for callers that wait).
C1_WindowNeverExceedsCeiling ==
    AllWaited => Cardinality(TrailingAdmissions) <= rl.requests_per_minute

(***************************************************************************)
(* Claims on the circuit breaker                                           *)
(***************************************************************************)
\* C2: once a record_error() has opened the closed breaker at time t,
\* can_proceed() returns false for every call before t + cooldown_duration
\* and the first call at or after t + cooldown_duration returns true,
\* whatever record_success / record_error calls happen in between.
C2_OpenUntilCooldown ==
    (cb_hist.op = "can_proceed" /\ cb_hist.saw_opened_at # None)
        => (cb_hist.ok <=> cb_hist.at >= cb_hist.saw_opened_at + cooldown_duration)

\* C2 witness: a can_proceed() admitted again after a cooldown during which
\* a further call was recorded on the open breaker.
C2_Witness ==
    /\ cb_hist.op = "can_proceed" /\ cb_hist.saw_opened_at # None /\ cb_hist.ok
    /\ cb["gemini"].state = "half_open"
    /\ cb["gemini"].total_requests > MinSampleSize

\* C3: while half-open, once half_open_max_attempts successes have been
\* recorded (one, by default) the breaker is closed.
C3_ClosedAfterMaxSuccesses ==
    (cb_hist.half_open_successes # None
        /\ cb_hist.half_open_successes >= half_open_max_attempts)
        => cb["gemini"].state = "closed"

\* C4: a record_error() on a half-open breaker, throttling or not, leaves
\* it open with open_until = now + cooldown_duration and half_open_attempts
\* = 0, and can_proceed() stays false until that new cooldown has elapsed.
C4_HalfOpenErrorReopens ==
    /\ (cb_hist.half_open_error_at # None)
          => /\ cb["gemini"].state = "open"
             /\ cb["gemini"].open_until = cb_hist.half_open_error_at + cooldown_duration
             /\ cb["gemini"].half_open_attempts = 0
    /\ (cb_hist.op = "can_proceed" /\ cb_hist.saw_half_open_error_at # None)
          => (cb_hist.ok <=>
                cb_hist.at >= cb_hist.saw_half_open_error_at + cooldown_duration)

\* C4 witness: a can_proceed() refused during the cooldown that a
\* half-open error started, after the first cooldown had already elapsed.
C4_Witness ==
    /\ cb_hist.op = "can_proceed" /\ ~cb_hist.ok
    /\ cb_hist.saw_half_open_error_at # None
    /\ cb_hist.at > cb_hist.saw_half_open_error_at

(***************************************************************************)
(* Claims on the client                                                    *)
(***************************************************************************)
\* The invocation has returned after every Gemini attempt raised, for a
\* text-only request with a usable Groq client.
PrimaryExhausted ==
    /\ inv.pc = "done"
    /\ inv.primary
    /\ inv.gemini_errors = max_retries
    /\ inv.image = "none"
    /\ inv.groq_avail = "ok"

C6_IdenticalRequestServedFromCache ==
    (inv.pc # "idle" /\ inv.primary /\ inv.use_cache /\ inv.answered_before)
        => inv.gemini_net + inv.groq_net = 0

\* C7: no more than the budget of max_calls provider network calls is made
\* for one submission, retries and fallback attempts included (the calls of
\* one invocation all belong to one submission).
C7_BudgetRefusesFurtherCalls ==
    inv.gemini_net + inv.groq_net <= max_calls

\* C9: once Gemini has returned a throttling error to an invocation of a
\* batch, the batch-wide flag is set, whatever the breaker's state was.
C9_ThrottlingSetsFlag ==
    inv.throttled => rate_limit_detected

(***************************************************************************)
(* Claims on the batch coordinator                                         *)
(***************************************************************************)
\* C8: once the throttling flag is set during a batch, a submission of the
\* batch is taken in hand only when no other submission is in hand.
C8_SequentialOnceFlagged ==
    [][ (rate_limit_detected
            /\ Running(batch)' # Running(batch)
            /\ Running(batch) \subseteq Running(batch)')
        => Cardinality(Running(batch)') <= 1 ]_vars

\* C10: the flag set in one batch is reset when the next batch starts, so
\* every batch begins in parallel mode.
C10_NextBatchStartsParallel ==
    batch.index > 0 => ~batch.use_sequential

(***************************************************************************)
(* Claims on the client, continued                                         *)
(***************************************************************************)
\* C11: an invocation of _call_gemini, and the _call_groq it may make,
\* never raises: whatever each attempt on either provider does (text, empty
\* response, throttling error, any other exception), the invocation ends
\* by returning the response text or None.
C11_NeverRaises ==
    /\ inv.result \in {"pending", "text", "none"}
    /\ inv.pc = "done" => inv.result \in {"text", "none"}

\* C11 witness: an invocation that returned None after every attempt on
\* both providers raised an exception that names no rate limit.
C11_Witness ==
    /\ inv.pc = "done" /\ inv.result = "none"
    /\ inv.gemini_errors = max_retries /\ ~inv.throttled
    /\ inv.groq_net = max_retries

\* C12: when the request carries an image and every Gemini attempt of the
\* invocation has raised, no call to Groq is made and the invocation
\* returns failure.
C12_ImageSkipsSecondary ==
    (inv.pc = "done" /\ inv.primary /\ inv.image # "none"
        /\ inv.gemini_errors = max_retries)
        => (inv.groq_calls = 0 /\ inv.groq_net = 0 /\ inv.result = "none")

(***************************************************************************)
(* Claims on the batch coordinator, continued                              *)
(***************************************************************************)
\* The rows of the returned list that belong to submission i.
RowsOf(i) == {k \in 1..Len(batch.results) : batch.results[k].submission = i}

\* C13: when a batch returns, in sequential and in parallel mode, every
\* submission has exactly one row in the result list, and a submission
\* whose processing raised has the row with Status "Error" and score 0,
\* whatever happened to the other submissions.
C13_OneRowPerSubmission ==
    batch.phase = "returned" =>
        /\ Len(batch.results) = batch.n
        /\ \A i \in 1..batch.n :
              /\ Cardinality(RowsOf(i)) = 1
              /\ \A k \in RowsOf(i) :
                    batch.results[k].row = "Error" <=> batch.outcome[i] # "ok"

\* C13 witness: a returned batch in which one submission raised and a
\* submission taken in hand after it was scored.
C13_Witness ==
    /\ batch.phase = "returned"
    /\ \E i, j \in 1..batch.n :
          /\ i < j
          /\ batch.outcome[i] = "error" /\ batch.outcome[j] = "ok"
          /\ batch.results[j].row = "scored"

\* C14: in parallel mode the returned list has the length of the input
\* list and its i-th element is the row of submission i, for every order
\* in which the workers complete.
C14_ResultsInInputOrder ==
    (batch.phase = "returned" /\ ~batch.use_sequential) =>
        /\ Len(batch.results) = batch.n
        /\ \A i \in 1..batch.n :
              /\ batch.results[i].submission = i
              /\ batch.results[i].row = RowOf(batch.outcome[i])

\* C14 witness: a parallel batch returned after its workers completed in
\* an order other than the input order.
C14_Witness ==
    /\ batch.phase = "returned" /\ ~batch.use_sequential
    /\ \E k \in 1..(Len(batch.order) - 1) : batch.order[k] > batch.order[k + 1]
    /\ \E i, j \in 1..batch.n : batch.outcome[i] # batch.outcome[j]

(***************************************************************************)
(* Claims on the concurrency guards                                        *)
(***************************************************************************)
\* C15: for every interleaving of the callers, the number of threads inside
\* the guard of a provider never exceeds that provider's maximum, and no
\* permit is lost: the permits left in a semaphore plus the threads holding
\* one of its permits always make up the maximum.
C15_GuardBoundAndNoLostPermit ==
    /\ \A p \in Providers :
          Cardinality(InsideGuard(guard, p)) <= MaxConcurrent(p)
    /\ \A k \in 1..Len(guard.sems) :
          guard.sems[k].value + Cardinality(Holders(guard, k))
              = MaxConcurrent(guard.sems[k].provider)


\* The counts of the window current at time t once the error being recorded
\* is added: a window lasts window_duration from its window_start, and a
\* request recorded after that is the first of a new window.
WindowCounts(b, is_rate_limit, t) ==
    LET expired == t - b.window_start > window_duration
        e == IF is_rate_limit THEN 1 ELSE 0
    IN  [ error_count |-> IF expired THEN e ELSE b.error_count + e,
          total_requests |-> IF expired THEN 1 ELSE b.total_requests + 1 ]

OpenCondition(w) ==
    /\ w.error_count >= min_errors_to_open
    /\ w.error_count * 100 >= error_threshold_pct * w.total_requests
    /\ w.total_requests >= MinSampleSize

\* C16: a record_error() on a Closed breaker opens it exactly when the
\* counts of the current window, the recorded error included, reach
\* min_errors_to_open errors, the error_threshold rate and 10 requests; the
\* opened breaker has open_until = now + cooldown_duration.
C16_OpensExactlyOnWindowCounts ==
    [][ (cb_hist'.op = "record_error" /\ cb["gemini"].state = "closed")
        => /\ cb'["gemini"].state = "open"
                <=> OpenCondition(WindowCounts(cb["gemini"],
                                               cb_hist'.is_rate_limit, now))
           /\ cb'["gemini"].state = "open"
                => cb'["gemini"].open_until = now + cooldown_duration ]_vars


\* C17: configured 60 requests per minute with safety factor 0.9 give the
\* ceiling 54, and an acquire() made when as many admissions as the ceiling
\* lie within the trailing 60 s is admitted no earlier than 60 s after the
\* oldest of them (stated for callers that wait): every admission is at
\* least 60 s after the admission that precedes it by the ceiling.
C17_AtCeilingWaitsForOldest ==
    /\ EffectiveRPM(60, DefaultSafetyPct) = 54
    /\ AllWaited
          => \A i \in 1..Len(rl_hist) :
                i > rl.requests_per_minute
                    => rl_hist[i].at >= rl_hist[i - rl.requests_per_minute].at
                                            + WindowMs


(***************************************************************************)
(* Claims on the client                                                    *)
(***************************************************************************)
\* C18: an invocation that starts with a cache miss while the Gemini breaker
\* is Open and its cooldown has not elapsed makes no Gemini network call and
\* no acquisition on the Gemini rate limiter; a text-only request goes to
\* _call_groq when the Groq client is usable, and in every other case the
\* invocation returns None without any provider network call.
C18_OpenBreakerSkipsPrimary ==
    inv.open_miss
        => /\ inv.gemini_net = 0
           /\ inv.gemini_acquires = 0
           /\ IF inv.image = "none" /\ inv.groq_avail = "ok"
              THEN inv.pc \in {"groq_start", "groq_attempt", "done"}
                   /\ (inv.pc # "groq_start" => inv.groq_calls = 1)
              ELSE /\ inv.pc \in {"groq_start", "done"}
                   /\ inv.groq_net = 0
                   /\ inv.pc = "done" => inv.result = "none"

\* C18 witness: a text-only request that started on the open breaker was
\* answered by Groq.
C18_Witness ==
    /\ inv.open_miss
    /\ inv.pc = "done"
    /\ inv.image = "none" /\ inv.groq_avail = "ok"
    /\ inv.result = "text" /\ inv.groq_net = 1


(***************************************************************************)
(* Claims on the validation of one submission                              *)
(***************************************************************************)
\* The result a criterion gets when the provider answers "NO".
NegativeResults ==
    { ValidationResult(THEME_RULES[1], FALSE, ThemeMessages[1]) }
    \cup { ValidationResult(PDF_RULES[k], FALSE, PdfMessages[k]) :
             k \in 1..Len(PDF_RULES) }
    \cup { ValidationResult(IMAGE_RULES[k], FALSE, ImageMessages[k]) :
             k \in 1..Len(IMAGE_RULES) }

\* C19: a validated submission one of whose semantic checks got no provider
\* answer is told apart from one the provider answered negatively: its
\* status is neither Accepted nor Rejected, and the unanswered criterion
\* does not carry the result of a negative answer.
C19_UnansweredIsDistinguishable ==
    (sub.pc = "done" /\ sub.unanswered # {})
        => /\ sub.status \notin {"Accepted", "Rejected"}
           /\ \A k \in 1..Len(sub.all_results) :
                 sub.all_results[k].criterion \in sub.unanswered
                     => sub.all_results[k] \notin NegativeResults

\* C20: of the four image checks of one submission at most one has its
\* image analysed by a provider over the network (the retries of that one
\* analysis apart); the others reuse its result.
C20_OneImageAnalysisCall ==
    sub.image_net <= 1


(***************************************************************************)
(* Claims on the client, continued                                         *)
(***************************************************************************)
\* An invocation of _call_gemini begins in this step.
InvocationStarts ==
    cl_hist'.invocations_left < cl_hist.invocations_left

\* C21: an invocation of _call_gemini (with a Gemini client) or of
\* _call_groq (with a Groq client) that finds an entry for its key in the
\* provider's cache returns the cached text in that step, with no network
\* call (each network call is made inside the provider's concurrency guard,
\* so none is entered either), and leaves both breakers, both rate
\* limiters and the guards' semaphores as they were.
C21_CacheHitTouchesNothing ==
    [][ /\ ( /\ InvocationStarts
             /\ inv'.primary
             /\ LET key == GeminiLookupKey(inv'.prompt, inv'.model,
                                           inv'.image, inv'.use_cache)
                IN  key # NoHash /\ key \in gemini_cache )
           => /\ inv'.pc = "done" /\ inv'.result = "text"
              /\ inv'.gemini_net = 0 /\ inv'.groq_net = 0
              /\ UNCHANGED <<now, cb, rl, groq_rl, guard>>
        /\ ( /\ inv.pc = "groq_start"
             /\ inv.groq_avail = "ok"
             /\ inv.use_cache
             /\ GroqCacheKey(inv.prompt, inv.groq_model) \in groq_cache )
           => /\ inv'.pc = "done" /\ inv'.result = "text"
              /\ inv'.groq_net = 0 /\ inv'.gemini_net = inv.gemini_net
              /\ UNCHANGED <<now, cb, rl, groq_rl, guard>> ]_vars

\* C21 witness: an invocation answered from the Gemini cache while the
\* breaker and the limiter carry the traces of an earlier invocation.
C21_Witness ==
    /\ inv.pc = "done" /\ inv.result = "text"
    /\ inv.primary /\ inv.gemini_net = 0 /\ inv.groq_calls = 0
    /\ GeminiLookupKey(inv.prompt, inv.model, inv.image, inv.use_cache)
          \in gemini_cache
    /\ cb["gemini"].total_requests > 0
    /\ rl.request_times # << >>


(***************************************************************************)
(* Claims on the locks                                                     *)
(***************************************************************************)
\* C22: every mutation of the rate limiter, the circuit breaker, the
\* response cache and the budget is made by a thread holding that
\* structure's lock, and no thread waits for one of these locks while it
\* holds another.
C22_MutationsUnderOwnLock ==
    /\ lk.unlocked = {}
    /\ \A t \in Threads : lk.th[t].pc = "waiting" => lk.th[t].held = {}


\* C23: with any number of concurrent callers on one limiter and a fair
\* scheduler, every acquire() call returns, although each caller sleeps its
\* delay with the limiter's lock held.
C23_EveryAcquireReturns ==
    \A t \in Threads : (lk.th[t].pc # "idle") ~> (lk.th[t].pc = "idle")

\* C23 witness: a caller that found the lock taken has returned, after a
\* sleep under the lock.
C23_Witness ==
    \E t \in lk.blocked :
        /\ lk.th[t].pc = "idle"
        /\ now > StartTime
        /\ Len(rl_hist) >= 2


(***************************************************************************)
(* Claims on the circuit breaker, continued                                *)
(***************************************************************************)
\* C24: while the breaker stays half-open, can_proceed() has returned true
\* at most half_open_max_attempts times since the open -> half-open
\* transition (the call that made the transition included): any further
\* call is refused.
C24_HalfOpenAdmitsMaxAttempts ==
    cb["gemini"].state = "half_open"
        => cb_hist.half_open_admits <= half_open_max_attempts


\* C25: at every point of an invocation, the network calls it has issued
\* to a provider do not exceed the acquire() calls it has completed on that
\* provider's rate limiter: every attempt, the first and each retry, has
\* its own acquisition before it.
C25_AcquireBeforeEveryCall ==
    /\ inv.gemini_net <= inv.gemini_acquires
    /\ inv.groq_net <= inv.groq_acquires

C27_OneCallPerThemeCheck ==
    sub.pc \notin {"idle", "theme"} => sub.theme_calls = 1

\* C28: an acquire() that finds the window below capacity is admitted at
\* least 60/ceiling seconds after the admission before it, for every jitter
\* multiplier in [jitter_min, jitter_max] (stated for callers that wait).
C28_MinSpacingBelowCapacity ==
    \A i \in 2..Len(rl_hist) :
        (~rl_hist[i].at_limit /\ rl_hist[i].waited)
            => rl_hist[i].at - rl_hist[i - 1].at
                   >= WindowMs \div rl.requests_per_minute

\* C29: every acquire() appends exactly one timestamp and takes it after
\* the delay it computed has elapsed, not at call entry, whether or not the
\* caller asked to wait.
C29_TimestampAfterDelay ==
    /\ rl_hist # << >>
          => /\ rl.request_times # << >>
             /\ rl.request_times[Len(rl.request_times)]
                    = rl_hist[Len(rl_hist)].at
    /\ \A i \in 1..Len(rl_hist) :
          rl_hist[i].at >= rl_hist[i].called_at + rl_hist[i].delay

\* C30: a breaker whose state is Open carries a deadline: open_until is
\* not None.
C30_OpenHasDeadline ==
    \A p \in Providers : cb[p].state = "open" => cb[p].open_until # None

\* the breaker is open again after an error in the half-open state
C30_Witness ==
    /\ cb["gemini"].state = "open"
    /\ cb["gemini"].open_until # None
    /\ cb_hist.op = "record_error"
    /\ cb_hist.half_open_error_at # None

\* A record_success() or record_error() made after the window has run out.
RecordsAfterExpiry ==
    /\ cb_hist'.op \in {"record_success", "record_error"}
    /\ now - cb["gemini"].window_start > window_duration

\* C31: a record_success() or record_error() made more than window_duration
\* after window_start leaves error_count, success_count and total_requests
\* at zero and window_start at the time of the call, in every state, and
\* its decision does not use the counts of the expired window: state,
\* open_until and half_open_attempts come out as the call gives them on a
\* breaker whose window was reset first.
C31_ExpiredWindowResetBeforeUse ==
    [][ RecordsAfterExpiry
        => LET reset == CheckWindowReset(cb["gemini"], now)
               judged == IF cb_hist'.op = "record_success"
                         THEN RecordSuccess(reset, now)
                         ELSE RecordError(reset, cb_hist'.is_rate_limit,
                                          now, TRUE)
               b2 == cb'["gemini"]
           IN  /\ b2.error_count = 0
               /\ b2.success_count = 0
               /\ b2.total_requests = 0
               /\ b2.window_start = now
               /\ b2.state = judged.state
               /\ b2.open_until = judged.open_until
               /\ b2.half_open_attempts = judged.half_open_attempts ]_vars

\* A record_success() on a breaker that is Closed or Open.
SuccessWhileClosedOrOpen ==
    /\ cb_hist'.op = "record_success"
    /\ cb["gemini"].state \in {"closed", "open"}

\* C32 as stated: a record_success() while the breaker is Closed or Open
\* lowers error_count by at most 1 and never below 0.
C32_SuccessLowersByAtMostOne ==
    [][ SuccessWhileClosedOrOpen
        => /\ cb'["gemini"].error_count >= cb["gemini"].error_count - 1
           /\ cb'["gemini"].error_count >= 0 ]_vars

\* C32 amended: a record_success() while the breaker is Closed or Open
\* never takes error_count below 0; it lowers it by at most 1 when no more
\* than window_duration has elapsed since window_start, and otherwise the
\* window reset that ends the call zeroes it.
C32_SuccessLowersByAtMostOneInWindow ==
    [][ SuccessWhileClosedOrOpen
        => /\ cb'["gemini"].error_count >= 0
           /\ IF now - cb["gemini"].window_start > window_duration
              THEN cb'["gemini"].error_count = 0
              ELSE cb'["gemini"].error_count
                       >= cb["gemini"].error_count - 1 ]_vars

\* a success was recorded on an open breaker within its window and took
\* one error off the count that opened it
C32_Witness ==
    /\ cb_hist.op = "record_success"
    /\ cb["gemini"].state = "open"
    /\ cb["gemini"].total_requests > 0
    /\ cb["gemini"].error_count = min_errors_to_open - 1
    /\ cb_hist.opened_at # None

\* C33: the effective ceiling requests_per_minute of a limiter equals
\* floor(configured requests per minute * safety factor), for every
\* configured value and every safety factor in (0, 1].
C33_CeilingIsFloorOfProduct ==
    rl # NoRateLimiter
        => rl.requests_per_minute = (rl.configured * rl.safety_factor) \div 100

\* C34: an invocation makes at most max_retries (3) network calls to
\* Gemini whatever the provider answers, and is past its retry loop once it
\* has made them; the sleep after a throttling error without a retry hint
\* is min(2 * 2^attempt, 60) seconds, never more than 60.
C34_BoundedRetriesAndBackoff ==
    /\ max_retries = 3
    /\ inv.gemini_net <= max_retries
    /\ inv.gemini_net = max_retries => inv.pc # "gemini_attempt"
    /\ inv.backoff # None
          => /\ inv.backoff = Min(2000 * (2 ^ inv.backoff_attempt), 60000)
             /\ inv.backoff <= 60000

\* the third Gemini call of an invocation was throttled without a retry
\* hint, and the invocation has ended
C34_Witness ==
    /\ inv.pc = "done"
    /\ inv.gemini_net = max_retries
    /\ inv.backoff # None
    /\ inv.backoff_attempt = max_retries - 1

\* C35: a step in which an invocation makes one network call to a provider
\* raises total_requests of that provider's breaker by at most one: the
\* outcome of a call is recorded once, on the last retry as on any other.
C35_OutcomeRecordedOnce ==
    [][ /\ inv'.gemini_net = inv.gemini_net + 1
            => cb'["gemini"].total_requests <= cb["gemini"].total_requests + 1
        /\ inv'.groq_net = inv.groq_net + 1
            => cb'["groq"].total_requests <= cb["groq"].total_requests + 1 ]_vars

\* C36: a text-only invocation of _call_gemini on a client whose Groq
\* client is usable returns None only after it has called _call_groq, on
\* every path: retries exhausted, breaker open, and an answer from Gemini
\* with empty text.
C36_NoneOnlyAfterSecondary ==
    ( /\ inv.pc = "done"
      /\ inv.result = "none"
      /\ inv.image = "none"
      /\ inv.groq_avail = "ok" )
        => inv.groq_calls >= 1

\* C37: when two submissions of a batch carry an image with the same
\* SHA256 and both have been checked, at least one of the two is reported
\* as a duplicate, however the workers' checks and inserts on the batch
\* hash tracker interleave.
C37_OneOfTwoReportedDuplicate ==
    \A a \in DupSubmissions, b \in DupSubmissions :
        ( /\ a # b
          /\ dup.w[a].sha = dup.w[b].sha
          /\ dup.w[a].pc = "done"
          /\ dup.w[b].pc = "done" )
            => dup.w[a].duplicate_found \/ dup.w[b].duplicate_found

\* C38: in every reachable state of a breaker, error_count and
\* success_count each lie between 0 and total_requests, after any sequence
\* of record_success, record_error (throttling or not), can_proceed and
\* reset.
C38_CountsWithinTotal ==
    \A p \in Providers :
        /\ 0 <= cb[p].error_count
        /\ cb[p].error_count <= cb[p].total_requests
        /\ 0 <= cb[p].success_count
        /\ cb[p].success_count <= cb[p].total_requests

\* a success has been recorded on an open breaker within a window that
\* also holds errors that were not throttling errors
C38_Witness ==
    /\ cb_hist.op = "record_success"
    /\ cb["gemini"].state = "open"
    /\ cb["gemini"].error_count > 0
    /\ cb["gemini"].success_count > 0
    /\ cb["gemini"].error_count + cb["gemini"].success_count
          < cb["gemini"].total_requests

\* C39: in every reachable state of a breaker half_open_attempts lies
\* between 0 and half_open_max_attempts, and it is 0 whenever the state is
\* Closed or Open.
C39_HalfOpenAttemptsInRange ==
    \A p \in Providers :
        /\ 0 <= cb[p].half_open_attempts
        /\ cb[p].half_open_attempts <= half_open_max_attempts
        /\ cb[p].state \in {"closed", "open"} => cb[p].half_open_attempts = 0

\* the breaker went half-open, counted its trial successes up to the
\* maximum, and the next success closed it
C39_Witness ==
    /\ cb_hist.op = "record_success"
    /\ cb["gemini"].state = "closed"
    /\ cb["gemini"].open_until # None
    /\ cb["gemini"].half_open_attempts = 0


====
